---- MODULE Spec2Model ----
(***************************************************************************)
(* A model of the allocator package: the remote distance providers         *)
(* (distances/external_apis.py), the distance factory                      *)
(* (distances/factory.py), centroid clustering (core/algorithms.py) and    *)
(* the tour solvers (api/route.py, core/routing.py).                       *)
(*                                                                         *)
(* A point is a pair <<longitude, latitude>> of integers.  A numpy array   *)
(* is a record [kind, shape, data] whose data is a sequence of rows;       *)
(* Python's None is the record None.                                       *)
(***************************************************************************)
EXTENDS Integers, Sequences, FiniteSets, TLC

\* ------------------------------------------------------------------------
\* Bounds of the model
\* ------------------------------------------------------------------------

\* Largest number of source (and of destination) points of an OSRM call.
MaxN == 3

\* Largest chunksize (osrm_max_table_size) of an OSRM call.
MaxChunk == 3

\* ------------------------------------------------------------------------
\* numpy arrays
\* ------------------------------------------------------------------------

None == [kind |-> "None", shape |-> <<0, 0>>, data |-> <<>>]

Array(nrows, ncols, rows) == [kind |-> "array", shape |-> <<nrows, ncols>>, data |-> rows]

\* An optional point set that was not given (Y=None, points_to=None).
NonePts == << <<-1, -1>> >>

\* math.ceil(n / m) for m = chunksize * 1.0 > 0.
CeilDiv(n, m) == (n + m - 1) \div m

\* A split that drops the remainder: every section holds n // k rows.
SectionSizeNoExtras(n, k, j) == n \div k

\* The sizes of the sections np.array_split(ary, k) cuts n rows into: the first
\* n % k sections hold n // k + 1 rows, the others n // k.
SectionSize(n, k, j) == (n \div k) + (IF j <= n % k THEN 1 ELSE 0)

RECURSIVE SectionStart(_, _, _)
\* Number of rows that precede section j.
SectionStart(n, k, j) == IF j <= 1 THEN 0 ELSE SectionStart(n, k, j - 1) + SectionSize(n, k, j - 1)

\* Section j (1-based) of np.array_split(ary, k), k >= 1.
ArraySplit(ary, k, j) ==
    SubSeq(ary, SectionStart(Len(ary), k, j) + 1,
                SectionStart(Len(ary), k, j) + SectionSize(Len(ary), k, j))

\* np.concatenate((a, b), axis) raises unless both are arrays that agree on the
\* other axis.
CanConcatenate(a, b, axis) ==
    /\ a.kind = "array"
    /\ b.kind = "array"
    /\ IF axis = 1 THEN a.shape[1] = b.shape[1] ELSE a.shape[2] = b.shape[2]

Concatenate(a, b, axis) ==
    IF axis = 1
    THEN Array(a.shape[1], a.shape[2] + b.shape[2],
               [r \in 1..a.shape[1] |-> a.data[r] \o b.data[r]])
    ELSE Array(a.shape[1] + b.shape[1], a.shape[2], a.data \o b.data)

\* ------------------------------------------------------------------------
\* The remote services
\* ------------------------------------------------------------------------

\* The table service's cost from coordinate p to coordinate q: directional, and
\* different for every ordered pair of the points used, so a misplaced entry
\* shows.
ServiceCost(p, q) == 100 * (2 * p[1] + p[2]) + (2 * q[1] + q[2])

\* The durations table the OSRM service answers a request with: one row per
\* index in sources, one column per index in destinations, both indexing the
\* request's coordinate list from 0.
OsrmResponse(req) ==
    Array(Len(req.sources), Len(req.destinations),
          [a \in 1..Len(req.sources) |->
              [b \in 1..Len(req.destinations) |->
                  ServiceCost(req.coords[req.sources[a] + 1],
                              req.coords[req.destinations[b] + 1])]])

\* A request whose destination indices are not offset by the number of sources.
OsrmUrlNoOffset(s, d) ==
    [coords       |-> s \o d,
     sources      |-> [k \in 1..Len(s) |-> k - 1],
     destinations |-> [k \in 1..Len(d) |-> k - 1]]

\* The request osrm_distance_matrix builds for source chunk s and destination
\* chunk d.
OsrmUrl(s, d) ==
    [coords       |-> s \o d,
     sources      |-> [k \in 1..Len(s) |-> k - 1],
     destinations |-> [k \in 1..Len(d) |-> Len(s) + k - 1]]

VARIABLES
    provider,   \* the remote function running: "osrm", "google" or "none"
    rpc,        \* its position
    X, Y,       \* source and destination points
    chunksize,  \* osrm only
    duration,   \* google only
    badElement, \* the one origin-destination pair the Google service cannot route, if any
    Xsplits, Ysplits,
    si, di,     \* the source chunk and destination chunk the loops are at (1-based)
    o, c,       \* the matrix assembled so far, the row block assembled so far
    count,
    requests,   \* every request issued, in order, with its outcome
    events,     \* google only: what the client did, in order: "start" of a
                \* request, its end ("complete" or "failed"), "sleep"
    rret        \* what the call returned or raised

\* What a remote call never assigns.
remoteEnv == <<provider, X, chunksize, duration, badElement>>

remoteVars == <<remoteEnv, rpc, Y, Xsplits, Ysplits, si, di, o, c, count, requests, events, rret>>

VARIABLES
    kpc,              \* position of kmeans_cluster
    data,             \* X, the [n, 2] array of points
    n_clusters,
    distance_method,
    max_iter,
    random_state,     \* <<>> for None, <<s>> for the seed s
    rngState,         \* the state of the global generator np.random
    history,          \* the earlier calls of the process, with what they returned
    centroidTrace,    \* the centroids the call has had: the initial ones, then
                      \* those of each iteration
    centroids,
    old_centroids,
    labels,           \* labels of the last iteration; <<>> while unbound
    iter,             \* the loop variable i: iterations completed
    dmCalls,          \* get_distance_matrix calls made by the clustering call
    kret              \* what kmeans_cluster returned or raised

\* What kmeans_cluster never assigns.
kmeansEnv == <<data, n_clusters, distance_method, max_iter, random_state>>

\* What outlives a clustering call.
kmeansGlobals == <<rngState, history>>

kmeansVars ==
    <<kmeansEnv, kmeansGlobals, kpc, centroids, old_centroids, labels, iter, dmCalls, kret,
      centroidTrace>>

VARIABLES
    fpc,                  \* position of get_distance_matrix
    points_from,
    points_to,
    method,
    kwargs,               \* api_key ("" when not given), osrm_max_table_size (0 when
                          \* not given), duration
    backends,             \* the metric functions the factory has called, in order
    fret                  \* what get_distance_matrix returned or raised

\* What get_distance_matrix never assigns.
factoryEnv == <<points_from, points_to, method, kwargs>>

factoryVars == <<factoryEnv, fpc, backends, fret>>

VARIABLES
    tpc,                  \* position of the routing call
    tmethod,              \* the routing method
    tdistance,            \* the metric of a solver method
    points,               \* the points to route
    installed,            \* the optional packages that can be imported
    distance_matrix,      \* the argument of _solve_tsp_nearest_neighbor
    unvisited,
    route,
    current,
    total_distance,
    solverCalls,          \* the external solvers invoked, in order
    matrixCalls,          \* distance matrices computed by the routing call
    tret                  \* what the routing call returned or raised

\* What a routing call never assigns.
routeEnv == <<tmethod, tdistance, points, installed>>

nnVars == <<distance_matrix, unvisited, route, current, total_distance>>

routeVars == <<routeEnv, tpc, nnVars, solverCalls, matrixCalls, tret>>

VARIABLES
    kahipPc,              \* position of kahip_cluster
    kahipX,               \* X, the points
    kahipK,               \* n_clusters
    kahipMethod,          \* distance_method
    n_closest,
    buffoon,
    kahipInstalled,       \* whether kahipwrapper can be imported
    kahipDistances,       \* distances, sparsified in place
    G,                    \* the graph: its number of nodes and the weight of each edge
    handed,               \* the integer edge weights handed to the partitioner
    subprocessCalls,      \* the commands run as subprocesses, in order
    kahipRet              \* what kahip_cluster returned or raised

\* What kahip_cluster never assigns.
kahipEnv == <<kahipX, kahipK, kahipMethod, n_closest, buffoon, kahipInstalled>>

kahipVars == <<kahipEnv, kahipPc, kahipDistances, G, handed, subprocessCalls, kahipRet>>

VARIABLES
    apc,          \* position of assign_to_closest
    pointsArg,    \* points, a DataFrame
    workersArg,   \* workers, a DataFrame
    adistance,    \* distance
    points_df,
    workers_df,
    assigned,     \* labels, what sort_by_distance_assignment returned
    result_df,
    ai,           \* i of the loop over the labels
    aret          \* what assign_to_closest returned or raised

\* What assign_to_closest never assigns.
assignEnv == <<pointsArg, workersArg, adistance>>

assignVars == <<assignEnv, apc, points_df, workers_df, assigned, result_df, ai, aret>>

vars == <<remoteVars, kmeansVars, factoryVars, routeVars, kahipVars, assignVars>>

\* No assignment call is running.
NoAssign ==
    /\ apc = "idle"
    /\ pointsArg = [columns |-> <<>>, rows |-> <<>>]
    /\ workersArg = [columns |-> <<>>, rows |-> <<>>]
    /\ adistance = "euclidean"
    /\ points_df = [columns |-> <<>>, rows |-> <<>>]
    /\ workers_df = [columns |-> <<>>, rows |-> <<>>]
    /\ assigned = <<>>
    /\ result_df = <<>>
    /\ ai = 0
    /\ aret = [kind |-> "pending", value |-> <<>>, error |-> ""]

\* No graph-partition clustering call is running.
NoKahip ==
    /\ kahipPc = "idle"
    /\ kahipX = <<>>
    /\ kahipK = 0
    /\ kahipMethod = "euclidean"
    /\ n_closest = 0
    /\ buffoon = FALSE
    /\ kahipInstalled = FALSE
    /\ kahipDistances = [kind |-> "None", shape |-> <<0, 0>>, data |-> <<>>]
    /\ G = [nodes |-> 0, weight |-> <<>>]
    /\ handed = <<>>
    /\ subprocessCalls = <<>>
    /\ kahipRet = [kind |-> "pending", value |-> <<>>, error |-> ""]

\* No clustering call is running.
NoKmeans ==
    /\ kpc = "idle"
    /\ data = <<>>
    /\ n_clusters = 0
    /\ distance_method = "euclidean"
    /\ max_iter = 0
    /\ random_state = <<>>
    /\ rngState = 0
    /\ history = <<>>
    /\ centroidTrace = <<>>
    /\ centroids = <<>>
    /\ old_centroids = <<>>
    /\ labels = <<>>
    /\ iter = 0
    /\ dmCalls = 0
    /\ kret = [kind |-> "pending", value |-> <<>>, error |-> ""]

\* No get_distance_matrix call is running.
NoFactory ==
    /\ fpc = "idle"
    /\ points_from = <<>>
    /\ points_to = <<>>
    /\ method = "euclidean"
    /\ kwargs = [api_key |-> "", osrm_max_table_size |-> 0, duration |-> TRUE]
    /\ backends = <<>>
    /\ fret = [kind |-> "pending", value |-> None, error |-> ""]

\* No routing call is running.
NoRoute ==
    /\ tpc = "idle"
    /\ tmethod = "none"
    /\ tdistance = "euclidean"
    /\ points = <<>>
    /\ installed = {}
    /\ distance_matrix = None
    /\ unvisited = {}
    /\ route = <<>>
    /\ current = 0
    /\ total_distance = 0
    /\ solverCalls = <<>>
    /\ matrixCalls = 0
    /\ tret = [kind |-> "pending", value |-> <<>>, error |-> ""]

\* No remote call is running.
NoRemote ==
    /\ provider = "none"
    /\ rpc = "idle"
    /\ X = <<>>
    /\ Y = <<>>
    /\ chunksize = 0
    /\ duration = TRUE
    /\ badElement = [pair |-> << <<0, 0>>, <<0, 0>> >>, status |-> "OK"]
    /\ Xsplits = 0 /\ Ysplits = 0
    /\ si = 0 /\ di = 0
    /\ o = None /\ c = None
    /\ count = 0
    /\ requests = <<>>
    /\ events = <<>>
    /\ rret = [kind |-> "pending", value |-> None, error |-> ""]

\* The variables of the calls that are not a remote provider's.
notRemote == <<kmeansVars, factoryVars, routeVars, kahipVars, assignVars>>

NoReturn == [kind |-> "pending", value |-> None, error |-> ""]
Returned(v) == [kind |-> "return", value |-> v, error |-> ""]
Raised(e) == [kind |-> "raise", value |-> None, error |-> e]

NoBadElement == [pair |-> << <<0, 0>>, <<0, 0>> >>, status |-> "OK"]

\* n points, in index order.
Points(n) == [k \in 1..n |-> <<k, 0>>]

\* A destination set distinct from the sources.
OtherPoints(n) == [k \in 1..n |-> <<k, 1>>]

\* ------------------------------------------------------------------------
\* osrm_distance_matrix
\* ------------------------------------------------------------------------

\* Lines 42-50, and np.array_split(X, Xsplits) of line 51, which raises for
\* zero sections.
OsrmEnter ==
    /\ provider = "osrm"
    /\ rpc = "enter"
    /\ Y' = IF Y = NonePts THEN X ELSE Y
    /\ Xsplits' = CeilDiv(Len(X), chunksize)
    /\ Ysplits' = CeilDiv(Len(Y'), chunksize)
    /\ o' = None
    /\ count' = 0
    /\ si' = 1
    /\ IF Xsplits' <= 0
       THEN /\ rpc' = "done"
            /\ rret' = Raised("ValueError")
       ELSE /\ rpc' = "outer"
            /\ UNCHANGED rret
    /\ UNCHANGED <<remoteEnv, di, c, requests>>
    /\ UNCHANGED events
    /\ UNCHANGED notRemote

\* Line 52 and np.array_split(Y, Ysplits) of line 53, for the next source chunk.
OsrmOuter ==
    /\ provider = "osrm"
    /\ rpc = "outer"
    /\ si <= Xsplits
    /\ c' = None
    /\ di' = 1
    /\ IF Ysplits <= 0
       THEN /\ rpc' = "done"
            /\ rret' = Raised("ValueError")
       ELSE /\ rpc' = "inner"
            /\ UNCHANGED rret
    /\ UNCHANGED <<remoteEnv, Y, Xsplits, Ysplits, si, o, count, requests>>
    /\ UNCHANGED events
    /\ UNCHANGED notRemote

\* Lines 54-68: one request.  requests.get either raises (no connection, a
\* timeout), answers with a status other than 200, or answers 200.
OsrmRequest ==
    /\ provider = "osrm"
    /\ rpc = "inner"
    /\ di <= Ysplits
    /\ LET s   == ArraySplit(X, Xsplits, si)
           d   == ArraySplit(Y, Ysplits, di)
           url == OsrmUrl(s, d)
           arr == OsrmResponse(url)
       IN \E outcome \in {"200", "500", "exception"} :
            /\ count' = count + 1
            /\ requests' = Append(requests, [url |-> url, outcome |-> outcome])
            /\ CASE outcome = "exception" ->
                      /\ rpc' = "done"
                      /\ rret' = Raised("RequestException")
                      /\ UNCHANGED <<c, di>>
                 [] outcome = "500" ->
                      \* logger.error(...); break
                      /\ rpc' = "row_end"
                      /\ UNCHANGED <<c, di, rret>>
                 [] outcome = "200" ->
                      /\ c' = IF c = None THEN arr ELSE Concatenate(c, arr, 1)
                      /\ di' = di + 1
                      /\ rpc' = IF di + 1 > Ysplits THEN "row_end" ELSE "inner"
                      /\ UNCHANGED rret
    /\ UNCHANGED <<remoteEnv, Y, Xsplits, Ysplits, si, o>>
    /\ UNCHANGED events
    /\ UNCHANGED notRemote

\* Lines 69-72, after the inner loop ended or was broken out of.
OsrmRowEnd ==
    /\ provider = "osrm"
    /\ rpc = "row_end"
    /\ IF o = None
       THEN /\ o' = c
            /\ si' = si + 1
            /\ rpc' = "outer"
            /\ UNCHANGED rret
       ELSE IF CanConcatenate(o, c, 0)
            THEN /\ o' = Concatenate(o, c, 0)
                 /\ si' = si + 1
                 /\ rpc' = "outer"
                 /\ UNCHANGED rret
            ELSE /\ rpc' = "done"
                 /\ rret' = Raised("ValueError")
                 /\ UNCHANGED <<o, si>>
    /\ UNCHANGED <<remoteEnv, Y, Xsplits, Ysplits, di, c, count, requests>>
    /\ UNCHANGED events
    /\ UNCHANGED notRemote

\* Lines 73-74.
OsrmReturn ==
    /\ provider = "osrm"
    /\ rpc = "outer"
    /\ si > Xsplits
    /\ rpc' = "done"
    /\ rret' = Returned(o)
    /\ UNCHANGED <<remoteEnv, Y, Xsplits, Ysplits, si, di, o, c, count, requests>>
    /\ UNCHANGED events
    /\ UNCHANGED notRemote

OsrmNext == OsrmEnter \/ OsrmOuter \/ OsrmRequest \/ OsrmRowEnd \/ OsrmReturn

\* A call osrm_distance_matrix(X, Y, chunksize).
OsrmCall(x, y, m) ==
    /\ provider = "osrm"
    /\ rpc = "enter"
    /\ X = x
    /\ Y = y
    /\ chunksize = m
    /\ duration = TRUE
    /\ badElement = NoBadElement
    /\ Xsplits = 0 /\ Ysplits = 0
    /\ si = 0 /\ di = 0
    /\ o = None /\ c = None
    /\ count = 0
    /\ requests = <<>>
    /\ events = <<>>
    /\ rret = NoReturn

InitOsrm ==
    /\ \E nX \in 0..MaxN, m \in 1..MaxChunk :
          \/ OsrmCall(Points(nX), NonePts, m)
          \/ \E nY \in 0..MaxN : OsrmCall(Points(nX), OtherPoints(nY), m)
    /\ NoKmeans /\ NoFactory /\ NoRoute /\ NoKahip /\ NoAssign

SpecOsrm == InitOsrm /\ [][OsrmNext]_vars

\* ------------------------------------------------------------------------
\* google_distance_matrix
\* ------------------------------------------------------------------------

\* "100 elements per request" (line 103).
GoogleMaxElements == 100

\* The divisor of lines 105-106, used when a call has more than 100 elements.
GoogleElementsChunk == 10

\* "Maximum of 25 origins or 25 destinations per request" (lines 109-115).
GoogleMaxOrigins == 25

\* One element of the service's answer: an element the service can route
\* carries status OK with a distance and a duration; any other element carries
\* its status alone.
GoogleElement(p, q) ==
    IF badElement.pair = <<p, q>>
    THEN [status |-> badElement.status, fields |-> {}, distance |-> 0, duration |-> 0]
    ELSE [status |-> "OK", fields |-> {"distance", "duration"},
          distance |-> ServiceCost(p, q), duration |-> 7 * ServiceCost(p, q)]

\* matrix["rows"]: one row per origin, one element per destination.
GoogleResponse(sources, destinations) ==
    [a \in 1..Len(sources) |->
        [b \in 1..Len(destinations) |-> GoogleElement(sources[a], destinations[b])]]

\* Lines 146-153 for one element: the value appended to cv.  The element's
\* duration or distance is read for every status but NOT_FOUND.
ElementValue(a) ==
    IF a.status = "NOT_FOUND"
    THEN -1
    ELSE IF duration THEN a.duration ELSE a.distance

\* Whether lines 146-153 raise KeyError on this element: the field read is
\* not in it.
ElementRaises(a) ==
    /\ a.status # "NOT_FOUND"
    /\ (IF duration THEN "duration" ELSE "distance") \notin a.fields

\* A split that looks at the number of elements only.
GoogleSplitsByElementsOnly(n_X, n_Y) ==
    IF n_X * n_Y > GoogleMaxElements
    THEN <<CeilDiv(n_X, GoogleElementsChunk), CeilDiv(n_Y, GoogleElementsChunk)>>
    ELSE <<1, 1>>

\* Lines 103-117: <<Xsplits, Ysplits>> for n_X sources and n_Y destinations.
GoogleSplits(n_X, n_Y) ==
    IF n_X * n_Y > GoogleMaxElements
    THEN <<CeilDiv(n_X, GoogleElementsChunk), CeilDiv(n_Y, GoogleElementsChunk)>>
    ELSE <<IF n_X > GoogleMaxOrigins THEN CeilDiv(n_X, GoogleMaxOrigins) ELSE 1,
           IF n_Y > GoogleMaxOrigins THEN CeilDiv(n_Y, GoogleMaxOrigins) ELSE 1>>

\* Lines 98-119.
GoogleEnter ==
    /\ provider = "google"
    /\ rpc = "enter"
    /\ Y' = IF Y = NonePts THEN X ELSE Y
    /\ Xsplits' = GoogleSplits(Len(X), Len(Y'))[1]
    /\ Ysplits' = GoogleSplits(Len(X), Len(Y'))[2]
    /\ o' = None
    /\ count' = 0
    /\ si' = 1
    /\ rpc' = "outer"
    /\ UNCHANGED <<remoteEnv, di, c, requests, rret>>
    /\ UNCHANGED events
    /\ UNCHANGED notRemote

\* Line 121, for the next source chunk.
GoogleOuter ==
    /\ provider = "google"
    /\ rpc = "outer"
    /\ si <= Xsplits
    /\ c' = None
    /\ di' = 1
    /\ rpc' = "inner"
    /\ UNCHANGED <<remoteEnv, Y, Xsplits, Ysplits, si, o, count, requests, rret>>
    /\ UNCHANGED events
    /\ UNCHANGED notRemote

\* Lines 122-127: the next destination chunk; the client sends the request
\* and the call blocks in gmaps.distance_matrix until it ends.
GoogleSend ==
    /\ provider = "google"
    /\ rpc = "inner"
    /\ di <= Ysplits
    /\ count' = count + 1
    /\ events' = Append(events, "start")
    /\ rpc' = "waiting"
    /\ UNCHANGED <<remoteEnv, Y, Xsplits, Ysplits, si, di, o, c, requests, rret>>
    /\ UNCHANGED notRemote

\* What follows an answer without a pause.
AfterAnswerNoSleep == <<"complete">>

\* Lines 127 and 131: the request was answered, then time.sleep(1).
AfterAnswer == <<"complete", "sleep">>

\* Lines 128-130: the client raised; no sleep before the return.
AfterFailure == <<"failed">>

\* Lines 126-159: the end of one request.  The client raises when the request
\* fails (a timeout, a transport or API error; the service rejects a request
\* without origins or without destinations), and the call then returns what
\* it has.
GoogleRequest ==
    /\ provider = "google"
    /\ rpc = "waiting"
    /\ LET sources      == ArraySplit(X, Xsplits, si)
           destinations == ArraySplit(Y, Ysplits, di)
           matrix       == GoogleResponse(sources, destinations)
           arr          == Array(Len(sources), Len(destinations),
                                 [a \in 1..Len(sources) |->
                                     [b \in 1..Len(destinations) |-> ElementValue(matrix[a][b])]])
       IN \E outcome \in (IF sources = <<>> \/ destinations = <<>>
                          THEN {"exception"} ELSE {"ok", "exception"}) :
            /\ requests' = Append(requests, [origins |-> sources,
                                             destinations |-> destinations,
                                             outcome |-> outcome])
            /\ events' = events \o (IF outcome = "exception" THEN AfterFailure ELSE AfterAnswer)
            /\ IF outcome = "exception"
               THEN \* logger.error(...); return o
                    /\ rpc' = "done"
                    /\ rret' = Returned(o)
                    /\ UNCHANGED <<c, di>>
               ELSE IF \E a \in 1..Len(sources), b \in 1..Len(destinations) :
                            ElementRaises(matrix[a][b])
                    THEN /\ rpc' = "done"
                         /\ rret' = Raised("KeyError")
                         /\ UNCHANGED <<c, di>>
                    ELSE /\ c' = IF c = None THEN arr ELSE Concatenate(c, arr, 1)
                         /\ di' = di + 1
                         /\ rpc' = IF di + 1 > Ysplits THEN "row_end" ELSE "inner"
                         /\ UNCHANGED rret
    /\ UNCHANGED <<remoteEnv, Y, Xsplits, Ysplits, si, o, count>>
    /\ UNCHANGED notRemote

\* Lines 160-163.
GoogleRowEnd ==
    /\ provider = "google"
    /\ rpc = "row_end"
    /\ IF o = None
       THEN /\ o' = c
            /\ si' = si + 1
            /\ rpc' = "outer"
            /\ UNCHANGED rret
       ELSE IF CanConcatenate(o, c, 0)
            THEN /\ o' = Concatenate(o, c, 0)
                 /\ si' = si + 1
                 /\ rpc' = "outer"
                 /\ UNCHANGED rret
            ELSE /\ rpc' = "done"
                 /\ rret' = Raised("ValueError")
                 /\ UNCHANGED <<o, si>>
    /\ UNCHANGED <<remoteEnv, Y, Xsplits, Ysplits, di, c, count, requests>>
    /\ UNCHANGED events
    /\ UNCHANGED notRemote

\* Lines 164-165.
GoogleReturn ==
    /\ provider = "google"
    /\ rpc = "outer"
    /\ si > Xsplits
    /\ rpc' = "done"
    /\ rret' = Returned(o)
    /\ UNCHANGED <<remoteEnv, Y, Xsplits, Ysplits, si, di, o, c, count, requests>>
    /\ UNCHANGED events
    /\ UNCHANGED notRemote

GoogleNext == GoogleEnter \/ GoogleOuter \/ GoogleSend \/ GoogleRequest \/ GoogleRowEnd \/ GoogleReturn

\* The point counts of the Google calls explored: <<sources, destinations>>,
\* destinations -1 for Y=None.  11 x 11 is the smallest call over 100 elements.
GoogleSizes == {<<1, -1>>, <<2, 3>>, <<3, -1>>, <<11, -1>>, <<1, 0>>, <<0, 2>>}

\* The elements the service may be unable to route: none, or one pair of the
\* call with a status that is not OK.
BadElements(x, y) ==
    {NoBadElement} \cup
    {[pair |-> <<x[i], y[j]>>, status |-> st] :
        i \in 1..Len(x), j \in 1..Len(y), st \in {"NOT_FOUND", "ZERO_RESULTS"}}

\* A call google_distance_matrix(X, Y, api_key, duration).
GoogleCall(x, y, dur, bad) ==
    /\ provider = "google"
    /\ rpc = "enter"
    /\ X = x
    /\ Y = y
    /\ chunksize = 0
    /\ duration = dur
    /\ badElement = bad
    /\ Xsplits = 0 /\ Ysplits = 0
    /\ si = 0 /\ di = 0
    /\ o = None /\ c = None
    /\ count = 0
    /\ requests = <<>>
    /\ events = <<>>
    /\ rret = NoReturn

InitGoogle ==
    /\ \E sz \in GoogleSizes, dur \in BOOLEAN :
          LET x == Points(sz[1])
              y == IF sz[2] < 0 THEN NonePts ELSE OtherPoints(sz[2])
          IN \E bad \in BadElements(x, IF sz[2] < 0 THEN x ELSE y) :
                GoogleCall(x, y, dur, bad)
    /\ NoKmeans /\ NoFactory /\ NoRoute /\ NoKahip /\ NoAssign

SpecGoogle == InitGoogle /\ [][GoogleNext]_vars

\* Most sources, and most destinations, of the calls explored for the
\* service's caps.
MaxGooglePoints == 26

\* Every call with 1..MaxGooglePoints sources and as many destinations, each
\* element of which the service can route.
InitGoogleCaps ==
    /\ \E nx, ny \in 1..MaxGooglePoints :
          GoogleCall(Points(nx), OtherPoints(ny), TRUE, NoBadElement)
    /\ NoKmeans /\ NoFactory /\ NoRoute /\ NoKahip /\ NoAssign

SpecGoogleCaps == InitGoogleCaps /\ [][GoogleNext]_vars

\* ------------------------------------------------------------------------
\* The local metrics (distances/euclidean.py, distances/haversine.py)
\* ------------------------------------------------------------------------

Abs(x) == IF x < 0 THEN -x ELSE x

\* The planar cost between two points.  The model keeps the square of the
\* distance: the same order as the distance itself, and exact on integers.
PairCost(p, q) == (p[1] - q[1]) * (p[1] - q[1]) + (p[2] - q[2]) * (p[2] - q[2])

\* euclidean_distance_matrix.  For a given but empty points_to, utm_to is a
\* one-dimensional empty array and the subtraction in pairwise_distances cannot
\* broadcast it against the sources: ValueError.
EuclideanDistanceMatrix(src, dst) ==
    IF Len(src) = 0
    THEN Returned(Array(0, IF dst = NonePts THEN 0 ELSE Len(dst), <<>>))
    ELSE IF dst # NonePts /\ Len(dst) = 0
         THEN Raised("ValueError")
         ELSE LET to == IF dst = NonePts THEN src ELSE dst
              IN Returned(Array(Len(src), Len(to),
                                [a \in 1..Len(src) |->
                                    [b \in 1..Len(to) |-> PairCost(src[a], to[b])]]))

\* haversine_distance_matrix.
HaversineDistanceMatrix(src, dst) ==
    IF Len(src) = 0
    THEN Returned(Array(0, IF dst = NonePts THEN 0 ELSE Len(dst), <<>>))
    ELSE LET to == IF dst = NonePts THEN src ELSE dst
         IN Returned(Array(Len(src), Len(to),
                           [a \in 1..Len(src) |->
                               [b \in 1..Len(to) |-> PairCost(src[a], to[b])]]))

\* get_distance_matrix for the two local metrics.
LocalDistanceMatrix(src, dst, metric) ==
    IF Len(src) = 0
    THEN Returned(Array(0, IF dst = NonePts THEN 0 ELSE Len(dst), <<>>))
    ELSE IF metric = "euclidean"
         THEN EuclideanDistanceMatrix(src, dst)
         ELSE HaversineDistanceMatrix(src, dst)

\* ------------------------------------------------------------------------
\* kmeans_cluster (core/algorithms.py)
\* ------------------------------------------------------------------------

\* Largest number of points of a clustering call.
MaxP == 3

\* Largest max_iter of a clustering call.
MaxIter == 2

RECURSIVE Factorial(_)
Factorial(n) == IF n <= 1 THEN 1 ELSE n * Factorial(n - 1)

\* Coordinates are multiples of MaxP!, so that the mean of any cluster is a
\* point with integer coordinates.
Unit == Factorial(MaxP)

\* The locations the points of a clustering call are drawn from.
Locations == {<<0, 0>>, <<Unit, 0>>, <<Unit, 2 * Unit>>}

Min(a, b) == IF a < b THEN a ELSE b
Max(a, b) == IF a > b THEN a ELSE b

\* seq[:k], with Python's meaning of a k beyond the length and of a negative k.
SliceTo(seq, k) ==
    IF k >= 0 THEN SubSeq(seq, 1, Min(k, Len(seq)))
    ELSE SubSeq(seq, 1, Max(0, Len(seq) + k))

\* The orders np.random.shuffle can leave n rows in.
ShuffleOrders(n) == {f \in [1..n -> 1..n] : \A a, b \in 1..n : f[a] = f[b] => a = b}

\* The generator behind np.random and np.random.RandomState: a state, and
\* draws that are a function of the state.  The model's generator has MaxP!
\* states, enough for every order of MaxP rows to come out of some state.
RngModulus == Factorial(MaxP)

\* np.random.RandomState(seed).get_state(): the state a seed stands for.
SeedState(seed) == (2 * seed + 1) % RngModulus

RECURSIVE NthOrder(_, _)
\* The order the draws numbered idx put the items in: each draw picks one of
\* the items left.
NthOrder(items, idx) ==
    IF items = <<>> THEN <<>>
    ELSE LET f == Factorial(Len(items) - 1)
             j == (idx \div f) + 1
         IN <<items[j]>> \o
            NthOrder([a \in 1..(Len(items) - 1) |-> IF a < j THEN items[a] ELSE items[a + 1]],
                     idx % f)

\* np.random.shuffle of n rows with the generator in state st: the order left,
\* as the sequence of the old positions.
ShuffleOrder(st, n) == NthOrder([a \in 1..n |-> a], st % Factorial(n))

\* The generator's state after the n - 1 draws of that shuffle.
AfterShuffle(st, n) == IF n <= 1 THEN st ELSE (st + n - 1) % RngModulus

\* A generator that is seeded and then left aside: the shuffle draws from the
\* global state as it was.
ShuffleStateUnseeded(seed, global) == global

\* Lines 31-34: the state np.random.shuffle draws from in initialize_centroids.
ShuffleState(seed, global) == IF seed # <<>> THEN SeedState(seed[1]) ELSE global

\* The 0-based index of the last minimum of one row.
ArgminLast(row) ==
    (CHOOSE j \in 1..Len(row) :
        /\ \A m \in 1..Len(row) : row[j] <= row[m]
        /\ \A m \in (j + 1)..Len(row) : row[m] > row[j]) - 1

\* np.argmin of one row: the 0-based index of the first minimum.
Argmin(row) ==
    (CHOOSE j \in 1..Len(row) :
        /\ \A m \in 1..Len(row) : row[j] <= row[m]
        /\ \A m \in 1..(j - 1) : row[m] > row[j]) - 1

RECURSIVE SumCoord(_, _, _)
\* The sum of coordinate ax over the points whose index is in members.
SumCoord(pts, members, ax) ==
    IF members = {} THEN 0
    ELSE LET m == CHOOSE x \in members : TRUE
         IN pts[m][ax] + SumCoord(pts, members \ {m}, ax)

\* A move that puts the centroid of an empty cluster at the origin.
MoveCentroidsEmptyToOrigin(pts, closest, cents) ==
    [j \in 1..Len(cents) |->
        LET members == {m \in 1..Len(pts) : closest[m] = j - 1}
        IN IF members = {}
           THEN <<0, 0>>
           ELSE <<SumCoord(pts, members, 1) \div Cardinality(members),
                  SumCoord(pts, members, 2) \div Cardinality(members)>>]

\* move_centroids: the mean of each cluster's points; the mean of no points is
\* NaN, and the old centroid is then kept.
MoveCentroids(pts, closest, cents) ==
    [j \in 1..Len(cents) |->
        LET members == {m \in 1..Len(pts) : closest[m] = j - 1}
        IN IF members = {}
           THEN cents[j]
           ELSE <<SumCoord(pts, members, 1) \div Cardinality(members),
                  SumCoord(pts, members, 2) \div Cardinality(members)>>]

\* A comparison that never finds two arrays close.
AllCloseNever(a, b) == FALSE

\* np.allclose(a, b, rtol=1e-4): |a - b| <= 1e-8 + 1e-4 * |b| for every
\* coordinate.  Over integers this is 10000 * |a - b| <= |b|.
AllClose(a, b) ==
    \A j \in 1..Len(a), ax \in 1..2 : 10000 * Abs(a[j][ax] - b[j][ax]) <= Abs(b[j][ax])

KmeansResult(conv) ==
    [kind |-> "return",
     value |-> [labels |-> labels', centroids |-> centroids', iterations |-> iter',
                converged |-> conv],
     error |-> ""]

KmeansRaised(e) == [kind |-> "raise", value |-> <<>>, error |-> e]

\* Lines 94-96: initialize_centroids shuffles a copy of the points and keeps
\* centroids[:k].
KmeansInitialize ==
    /\ kpc = "enter"
    /\ LET st == ShuffleState(random_state, rngState)
           perm == ShuffleOrder(st, Len(data))
       IN /\ centroids' = SliceTo([a \in 1..Len(data) |-> data[perm[a]]], n_clusters)
          /\ rngState' = AfterShuffle(st, Len(data))
    /\ old_centroids' = centroids'
    /\ centroidTrace' = <<centroids'>>
    /\ kpc' = "loop"
    /\ UNCHANGED <<kmeansEnv, history, labels, iter, dmCalls, kret>>
    /\ UNCHANGED <<remoteVars, factoryVars, routeVars, kahipVars, assignVars>>

\* Lines 98-115: one iteration.
KmeansIteration ==
    /\ kpc = "loop"
    /\ iter < max_iter
    /\ dmCalls' = dmCalls + 1
    /\ LET distances == LocalDistanceMatrix(data, centroids, distance_method)
       IN IF distances.kind = "raise"
          THEN /\ kpc' = "done"
               /\ kret' = KmeansRaised(distances.error)
               /\ UNCHANGED <<centroids, old_centroids, labels, iter, centroidTrace>>
          ELSE IF distances.value.shape[2] = 0
               THEN \* np.argmin over an empty axis
                    /\ kpc' = "done"
                    /\ kret' = KmeansRaised("ValueError")
                    /\ UNCHANGED <<centroids, old_centroids, labels, iter, centroidTrace>>
               ELSE /\ labels' = [a \in 1..Len(data) |-> Argmin(distances.value.data[a])]
                    /\ centroids' = MoveCentroids(data, labels', centroids)
                    /\ centroidTrace' = Append(centroidTrace, centroids')
                    /\ iter' = iter + 1
                    /\ IF AllClose(old_centroids, centroids')
                       THEN /\ kpc' = "done"
                            /\ kret' = KmeansResult(TRUE)
                            /\ UNCHANGED old_centroids
                       ELSE /\ kpc' = "loop"
                            /\ old_centroids' = centroids'
                            /\ UNCHANGED kret
    /\ UNCHANGED <<kmeansEnv, kmeansGlobals>>
    /\ UNCHANGED <<remoteVars, factoryVars, routeVars, kahipVars, assignVars>>

\* Line 117, after max_iter iterations.  With max_iter = 0 the name labels was
\* never bound: UnboundLocalError.
KmeansExhausted ==
    /\ kpc = "loop"
    /\ iter >= max_iter
    /\ kpc' = "done"
    /\ UNCHANGED <<kmeansEnv, kmeansGlobals, centroids, old_centroids, labels, iter, dmCalls,
                   centroidTrace>>
    /\ kret' = IF iter = 0 THEN KmeansRaised("UnboundLocalError") ELSE KmeansResult(FALSE)
    /\ UNCHANGED <<remoteVars, factoryVars, routeVars, kahipVars, assignVars>>

KmeansNext == KmeansInitialize \/ KmeansIteration \/ KmeansExhausted

\* The point sets of 1..n points drawn from Locations, duplicates included.
PointSets(n) == UNION {[1..m -> Locations] : m \in 1..n}

InitKmeans ==
    /\ kpc = "enter"
    /\ data \in PointSets(MaxP)
    /\ n_clusters \in -1..(MaxP + 1)
    /\ distance_method \in {"euclidean", "haversine"}
    /\ max_iter \in 0..MaxIter
    /\ random_state = <<>>
    /\ rngState \in 0..(RngModulus - 1)
    /\ history = <<>>
    /\ centroidTrace = <<>>
    /\ centroids = <<>>
    /\ old_centroids = <<>>
    /\ labels = <<>>
    /\ iter = 0
    /\ dmCalls = 0
    /\ kret = [kind |-> "pending", value |-> <<>>, error |-> ""]
    /\ NoRemote /\ NoFactory /\ NoRoute /\ NoKahip /\ NoAssign

SpecKmeans == InitKmeans /\ [][KmeansNext]_vars

\* A coordinate as large as a longitude is against the spacing of the points of
\* one town: 1e-4 of it, the tolerance of np.allclose, is 10 * Unit.
Far == 100000 * Unit

\* Locations on one parallel, three of them within the tolerance of each other
\* and one beyond it.
NearbyLocations ==
    {<<Far, 0>>, <<Far + Unit, 0>>, <<Far + 5 * Unit, 0>>, <<Far + 40 * Unit, 0>>}

\* Clustering calls on points drawn from NearbyLocations.
InitKmeansNearby ==
    /\ kpc = "enter"
    /\ data \in UNION {[1..m -> NearbyLocations] : m \in 1..MaxP}
    /\ n_clusters \in 1..MaxP
    /\ distance_method \in {"euclidean", "haversine"}
    /\ max_iter \in 1..MaxIter
    /\ random_state = <<>>
    /\ rngState \in 0..(RngModulus - 1)
    /\ history = <<>>
    /\ centroidTrace = <<>>
    /\ centroids = <<>>
    /\ old_centroids = <<>>
    /\ labels = <<>>
    /\ iter = 0
    /\ dmCalls = 0
    /\ kret = [kind |-> "pending", value |-> <<>>, error |-> ""]
    /\ NoRemote /\ NoFactory /\ NoRoute /\ NoKahip /\ NoAssign

SpecKmeansNearby == InitKmeansNearby /\ [][KmeansNext]_vars

\* Most calls one process makes.
MaxCalls == 3

\* The seeds of the seeded calls.
Seeds == {0, 1}

\* The clustering calls a process makes one after another: two point sets, one
\* or two clusters, unseeded or seeded.
SessionCalls ==
    [data : {<<<<0, 0>>, <<Unit, 0>>>>, <<<<0, 0>>, <<Unit, 0>>, <<Unit, 2 * Unit>>>>},
     n_clusters : 1..2,
     random_state : {<<>>} \cup {<<s>> : s \in Seeds}]

\* The call that has finished, as the history keeps it.
FinishedCall ==
    [data |-> data, n_clusters |-> n_clusters, distance_method |-> distance_method,
     max_iter |-> max_iter, random_state |-> random_state, ret |-> kret]

\* The process calls kmeans_cluster again after a call has finished.  Nothing
\* of the finished call is left but the global generator.
KmeansCall ==
    /\ kpc = "done"
    /\ Len(history) + 1 < MaxCalls
    /\ history' = Append(history, FinishedCall)
    /\ \E call \in SessionCalls :
          /\ data' = call.data
          /\ n_clusters' = call.n_clusters
          /\ random_state' = call.random_state
    /\ kpc' = "enter"
    /\ centroids' = <<>>
    /\ centroidTrace' = <<>>
    /\ old_centroids' = <<>>
    /\ labels' = <<>>
    /\ iter' = 0
    /\ dmCalls' = 0
    /\ kret' = [kind |-> "pending", value |-> <<>>, error |-> ""]
    /\ UNCHANGED <<distance_method, max_iter, rngState>>
    /\ UNCHANGED <<remoteVars, factoryVars, routeVars, kahipVars, assignVars>>

SessionNext == KmeansNext \/ KmeansCall

InitSession ==
    /\ kpc = "enter"
    /\ \E call \in SessionCalls :
          /\ data = call.data
          /\ n_clusters = call.n_clusters
          /\ random_state = call.random_state
    /\ distance_method = "euclidean"
    /\ max_iter = MaxIter
    /\ rngState \in 0..(RngModulus - 1)
    /\ history = <<>>
    /\ centroidTrace = <<>>
    /\ centroids = <<>>
    /\ old_centroids = <<>>
    /\ labels = <<>>
    /\ iter = 0
    /\ dmCalls = 0
    /\ kret = [kind |-> "pending", value |-> <<>>, error |-> ""]
    /\ NoRemote /\ NoFactory /\ NoRoute /\ NoKahip /\ NoAssign

SpecSession == InitSession /\ [][SessionNext]_vars

\* ------------------------------------------------------------------------
\* get_distance_matrix (distances/factory.py)
\* ------------------------------------------------------------------------

\* kwargs.get("osrm_max_table_size", 100) (line 52).
DefaultTableSize == 100

\* A caller hands a call to a remote provider.
StartRemote(prov, x, y, m, dur, bad) ==
    /\ provider' = prov
    /\ rpc' = "enter"
    /\ X' = x
    /\ Y' = y
    /\ chunksize' = m
    /\ duration' = dur
    /\ badElement' = bad
    /\ UNCHANGED <<Xsplits, Ysplits, si, di, o, c, count, requests, events, rret>>

\* Lines 40-42: no source points.
FactoryEmptySource ==
    /\ fpc = "enter"
    /\ Len(points_from) = 0
    /\ fret' = Returned(Array(0, IF points_to = NonePts THEN 0 ELSE Len(points_to), <<>>))
    /\ fpc' = "done"
    /\ UNCHANGED <<factoryEnv, backends>>
    /\ UNCHANGED <<remoteVars, kmeansVars, routeVars, kahipVars, assignVars>>

\* Lines 44-47: a local metric.
FactoryLocal ==
    /\ fpc = "enter"
    /\ Len(points_from) # 0
    /\ method \in {"euclidean", "haversine"}
    /\ backends' = Append(backends, method)
    /\ fret' = IF method = "euclidean"
               THEN EuclideanDistanceMatrix(points_from, points_to)
               ELSE HaversineDistanceMatrix(points_from, points_to)
    /\ fpc' = "done"
    /\ UNCHANGED factoryEnv
    /\ UNCHANGED <<remoteVars, kmeansVars, routeVars, kahipVars, assignVars>>

\* Lines 48-54.
FactoryOsrm ==
    /\ fpc = "enter"
    /\ Len(points_from) # 0
    /\ method = "osrm"
    /\ backends' = Append(backends, method)
    /\ StartRemote("osrm", points_from, points_to,
                   IF kwargs.osrm_max_table_size = 0 THEN DefaultTableSize
                   ELSE kwargs.osrm_max_table_size,
                   TRUE, NoBadElement)
    /\ fpc' = "remote"
    /\ UNCHANGED <<factoryEnv, fret>>
    /\ UNCHANGED <<kmeansVars, routeVars, kahipVars, assignVars>>

\* Lines 55-58: google without an api_key.
FactoryGoogleNoKey ==
    /\ fpc = "enter"
    /\ Len(points_from) # 0
    /\ method = "google"
    /\ kwargs.api_key = ""
    /\ fret' = Raised("ValueError: Google method requires api_key parameter")
    /\ fpc' = "done"
    /\ UNCHANGED <<factoryEnv, backends>>
    /\ UNCHANGED <<remoteVars, kmeansVars, routeVars, kahipVars, assignVars>>

\* Lines 55-61: google with an api_key.
FactoryGoogle ==
    /\ fpc = "enter"
    /\ Len(points_from) # 0
    /\ method = "google"
    /\ kwargs.api_key # ""
    /\ backends' = Append(backends, method)
    /\ \E bad \in BadElements(points_from,
                              IF points_to = NonePts THEN points_from ELSE points_to) :
          StartRemote("google", points_from, points_to, 0, kwargs.duration, bad)
    /\ fpc' = "remote"
    /\ UNCHANGED <<factoryEnv, fret>>
    /\ UNCHANGED <<kmeansVars, routeVars, kahipVars, assignVars>>

\* Lines 62-66.
FactoryUnknownMethod ==
    /\ fpc = "enter"
    /\ Len(points_from) # 0
    /\ method \notin {"euclidean", "haversine", "osrm", "google"}
    /\ fret' = Raised("ValueError: Unknown distance method")
    /\ fpc' = "done"
    /\ UNCHANGED <<factoryEnv, backends>>
    /\ UNCHANGED <<remoteVars, kmeansVars, routeVars, kahipVars, assignVars>>

\* The provider's return value, or its exception, is the factory's.
FactoryRemoteDone ==
    /\ fpc = "remote"
    /\ rpc = "done"
    /\ fret' = rret
    /\ fpc' = "done"
    /\ UNCHANGED <<factoryEnv, backends>>
    /\ UNCHANGED <<remoteVars, kmeansVars, routeVars, kahipVars, assignVars>>

FactoryNext ==
    \/ FactoryEmptySource \/ FactoryLocal \/ FactoryOsrm \/ FactoryGoogleNoKey
    \/ FactoryGoogle \/ FactoryUnknownMethod \/ FactoryRemoteDone
    \/ OsrmNext \/ GoogleNext

InitFactory ==
    /\ fpc = "enter"
    /\ points_from \in {Points(n) : n \in 0..MaxN}
    /\ points_to \in {NonePts} \cup {OtherPoints(n) : n \in 0..MaxN}
    /\ method \in {"euclidean", "haversine", "osrm", "google", "manhattan"}
    /\ kwargs \in [api_key : {"", "key"}, osrm_max_table_size : 0..MaxChunk,
                   duration : BOOLEAN]
    /\ backends = <<>>
    /\ fret = NoReturn
    /\ NoRemote /\ NoKmeans /\ NoRoute /\ NoKahip /\ NoAssign

SpecFactory == InitFactory /\ [][FactoryNext]_vars

\* ------------------------------------------------------------------------
\* Routing (api/route.py, core/routing.py)
\* ------------------------------------------------------------------------

\* The default chunksize of osrm_distance_matrix (external_apis.py line 18).
MAX_DISTANCE_MATRIX_SIZE == 100

\* distance_matrix[a, b] for 0-based a and b.
Entry(dm, a, b) == dm.data[a + 1][b + 1]

RECURSIVE TourCost(_, _)
\* The sum of the entries along consecutive positions of a tour.
TourCost(dm, tour) ==
    IF Len(tour) <= 1 THEN 0
    ELSE Entry(dm, tour[1], tour[2]) + TourCost(dm, Tail(tour))

\* int(x): a cost is a fixed-point number counted in halves of the metric's
\* unit, and int drops the fraction.
IntOf(v) == IF v >= 0 THEN 2 * (v \div 2) ELSE -(2 * ((-v) \div 2))

RECURSIVE IntTourCost(_, _)
\* The objective the constraint solver reports: the sum of the transit
\* callback's values along the tour.
IntTourCost(dm, tour) ==
    IF Len(tour) <= 1 THEN 0
    ELSE IntOf(Entry(dm, tour[1], tour[2])) + IntTourCost(dm, Tail(tour))

\* The tours an external solver may answer with for n >= 2 nodes and depot 0:
\* closed, and visiting every node once.
ClosedTours(n) ==
    {tour \in [1..(n + 1) -> 0..(n - 1)] :
        /\ tour[1] = 0
        /\ tour[n + 1] = 0
        /\ \A a, b \in 1..n : tour[a] = tour[b] => a = b}

RouteResult(r, total) ==
    [kind |-> "return", value |-> [route |-> r, total_distance |-> total], error |-> ""]

RouteRaised(e) == [kind |-> "raise", value |-> <<>>, error |-> e]

\* shortest_path lines 77-86: a method that is none of the four.
RouteUnknownMethod ==
    /\ tpc = "enter"
    /\ tmethod \notin {"christofides", "ortools", "osrm", "google"}
    /\ tret' = RouteRaised("ValueError: Unknown routing method")
    /\ tpc' = "done"
    /\ UNCHANGED <<routeEnv, nnVars, solverCalls, matrixCalls>>
    /\ UNCHANGED <<remoteVars, kmeansVars, factoryVars, kahipVars, assignVars>>

\* tsp_christofides and solve_tsp_christofides with a local metric.  The tour
\* is the external library's: any closed tour for two or more points; for
\* fewer the graph handed over has no edge and the library's answer is not the
\* repository's to decide.
TspChristofides ==
    /\ tpc = "enter"
    /\ tmethod = "christofides"
    /\ tpc' = "done"
    /\ IF "Christofides" \notin installed
       THEN /\ tret' = RouteRaised("ImportError")
            /\ UNCHANGED <<nnVars, solverCalls, matrixCalls>>
       ELSE LET distances == LocalDistanceMatrix(points, points, tdistance).value
                n == Len(points)
            IN /\ matrixCalls' = matrixCalls + 1
               /\ solverCalls' = Append(solverCalls, "christofides")
               /\ UNCHANGED nnVars
               /\ IF n >= 2
                  THEN \E tour \in ClosedTours(n) :
                          tret' = RouteResult(tour, TourCost(distances, tour))
                  ELSE \/ tret' = RouteRaised("SolverError")
                       \/ \E tour \in {<<>>, <<0>>} : tret' = RouteResult(tour, 0)
                       \/ /\ n = 1
                          /\ tret' = RouteResult(<<0, 0>>, Entry(distances, 0, 0))
                       \/ /\ n = 0
                          /\ tret' = RouteRaised("IndexError")
    /\ UNCHANGED routeEnv
    /\ UNCHANGED <<remoteVars, kmeansVars, factoryVars, kahipVars, assignVars>>

\* tsp_ortools and solve_tsp_ortools with a local metric.  The graph handed to
\* the solver is complete and the search has no time limit, so the solver has
\* an assignment and the branch of lines 81-82 (no assignment) is not taken.
TspOrtools ==
    /\ tpc = "enter"
    /\ tmethod = "ortools"
    /\ tpc' = "done"
    /\ UNCHANGED nnVars
    /\ IF "ortools" \notin installed
       THEN /\ tret' = RouteRaised("ImportError")
            /\ UNCHANGED <<solverCalls, matrixCalls>>
       ELSE IF Len(points) = 0
            THEN /\ tret' = RouteRaised("ValueError: Cannot solve TSP with empty data")
                 /\ UNCHANGED <<solverCalls, matrixCalls>>
            ELSE IF Len(points) = 1
                 THEN /\ tret' = RouteResult(<<0, 0>>, 0)
                      /\ UNCHANGED <<solverCalls, matrixCalls>>
                 ELSE LET distances == LocalDistanceMatrix(points, points, tdistance).value
                      IN /\ matrixCalls' = matrixCalls + 1
                         /\ solverCalls' = Append(solverCalls, "ortools")
                         /\ \E tour \in ClosedTours(Len(points)) :
                               tret' = RouteResult(tour, IntTourCost(distances, tour))
    /\ UNCHANGED routeEnv
    /\ UNCHANGED <<remoteVars, kmeansVars, factoryVars, kahipVars, assignVars>>

\* tsp_osrm lines 183-189 and tsp_google lines 224-230: no point, or one.
TspRemoteFewPoints ==
    /\ tpc = "enter"
    /\ tmethod \in {"osrm", "google"}
    /\ Len(points) <= 1
    /\ tret' = IF Len(points) = 0
               THEN RouteRaised("ValueError: Cannot solve TSP with empty data")
               ELSE RouteResult(<<0>>, 0)
    /\ tpc' = "done"
    /\ UNCHANGED <<routeEnv, nnVars, solverCalls, matrixCalls>>
    /\ UNCHANGED <<remoteVars, kmeansVars, factoryVars, kahipVars, assignVars>>

\* tsp_osrm lines 191-196 and tsp_google lines 232-239: the call of the remote
\* provider.
TspRemoteStart ==
    /\ tpc = "enter"
    /\ tmethod \in {"osrm", "google"}
    /\ Len(points) >= 2
    /\ matrixCalls' = matrixCalls + 1
    /\ IF tmethod = "osrm"
       THEN StartRemote("osrm", points, NonePts, MAX_DISTANCE_MATRIX_SIZE, TRUE, NoBadElement)
       ELSE \E bad \in BadElements(points, points) :
               StartRemote("google", points, NonePts, 0, FALSE, bad)
    /\ tpc' = "remote"
    /\ UNCHANGED <<routeEnv, nnVars, solverCalls, tret>>
    /\ UNCHANGED <<kmeansVars, factoryVars, kahipVars, assignVars>>

\* The provider has returned or raised: line 198 or 241 hands its value to
\* _solve_tsp_nearest_neighbor.
TspRemoteDone ==
    /\ tpc = "remote"
    /\ rpc = "done"
    /\ IF rret.kind = "raise"
       THEN /\ tret' = RouteRaised(rret.error)
            /\ tpc' = "done"
            /\ UNCHANGED distance_matrix
       ELSE /\ distance_matrix' = rret.value
            /\ tpc' = "nn_enter"
            /\ UNCHANGED tret
    /\ UNCHANGED <<routeEnv, unvisited, route, current, total_distance, solverCalls, matrixCalls>>
    /\ UNCHANGED <<remoteVars, kmeansVars, factoryVars, kahipVars, assignVars>>

\* _solve_tsp_nearest_neighbor lines 24-34.  len(None) raises TypeError.
NNEnter ==
    /\ tpc = "nn_enter"
    /\ IF distance_matrix.kind = "None"
       THEN /\ tret' = RouteRaised("TypeError")
            /\ tpc' = "done"
            /\ UNCHANGED <<unvisited, route, current, total_distance>>
       ELSE LET n == distance_matrix.shape[1]
            IN /\ UNCHANGED tret
               /\ total_distance' = 0
               /\ current' = 0
               /\ unvisited' = IF n <= 1 THEN {} ELSE 1..(n - 1)
               /\ route' = IF n = 0 THEN <<>> ELSE <<0>>
               /\ tpc' = IF n <= 1 THEN "nn_done" ELSE "nn_loop"
    /\ UNCHANGED <<routeEnv, distance_matrix, solverCalls, matrixCalls>>
    /\ UNCHANGED <<remoteVars, kmeansVars, factoryVars, kahipVars, assignVars>>

\* A choice that takes any unvisited node.
NearestAnyUnvisited(dm, cur, unv) == unv

\* Line 38: min(unvisited, key=lambda x: distance_matrix[current, x]) returns a
\* minimum; which one of several equal minima depends on the set's iteration
\* order.
Nearest(dm, cur, unv) ==
    {nearest \in unv : \A x \in unv : Entry(dm, cur, nearest) <= Entry(dm, cur, x)}

\* Lines 36-42: one step.
NNStep ==
    /\ tpc = "nn_loop"
    /\ unvisited # {}
    /\ \E nearest \in Nearest(distance_matrix, current, unvisited) :
          /\ total_distance' = total_distance + Entry(distance_matrix, current, nearest)
          /\ route' = Append(route, nearest)
          /\ unvisited' = unvisited \ {nearest}
          /\ current' = nearest
    /\ UNCHANGED <<routeEnv, tpc, distance_matrix, solverCalls, matrixCalls, tret>>
    /\ UNCHANGED <<remoteVars, kmeansVars, factoryVars, kahipVars, assignVars>>

\* Lines 44-48.
NNClose ==
    /\ tpc = "nn_loop"
    /\ unvisited = {}
    /\ total_distance' = total_distance + Entry(distance_matrix, current, 0)
    /\ route' = Append(route, 0)
    /\ tpc' = "nn_done"
    /\ UNCHANGED <<routeEnv, distance_matrix, unvisited, current, solverCalls, matrixCalls, tret>>
    /\ UNCHANGED <<remoteVars, kmeansVars, factoryVars, kahipVars, assignVars>>

\* tsp_osrm lines 200-209 and tsp_google lines 243-256.
TspRemoteReturn ==
    /\ tpc = "nn_done"
    /\ tmethod \in {"osrm", "google"}
    /\ tret' = RouteResult(route, total_distance)
    /\ tpc' = "done"
    /\ UNCHANGED <<routeEnv, nnVars, solverCalls, matrixCalls>>
    /\ UNCHANGED <<remoteVars, kmeansVars, factoryVars, kahipVars, assignVars>>

NNNext == NNEnter \/ NNStep \/ NNClose

RouteNext ==
    \/ RouteUnknownMethod \/ TspChristofides \/ TspOrtools
    \/ TspRemoteFewPoints \/ TspRemoteStart \/ TspRemoteDone \/ TspRemoteReturn
    \/ NNNext \/ OsrmNext \/ GoogleNext

\* The calls explored: every method on 0..MaxN points, and the Google method on
\* 11 points as well, the smallest call the provider cuts into chunks.
RouteCalls ==
    {<<m, n>> : m \in {"christofides", "ortools", "osrm", "google", "walk"}, n \in 0..MaxN}
        \cup {<<"google", 11>>}

InitRoute ==
    /\ tpc = "enter"
    /\ \E call \in RouteCalls :
          /\ tmethod = call[1]
          /\ points = Points(call[2])
    /\ tdistance \in {"euclidean", "haversine"}
    /\ installed \in SUBSET {"ortools", "Christofides"}
    /\ distance_matrix = None
    /\ unvisited = {}
    /\ route = <<>>
    /\ current = 0
    /\ total_distance = 0
    /\ solverCalls = <<>>
    /\ matrixCalls = 0
    /\ tret = [kind |-> "pending", value |-> <<>>, error |-> ""]
    /\ NoRemote /\ NoKmeans /\ NoFactory /\ NoKahip /\ NoAssign

SpecRoute == InitRoute /\ [][RouteNext]_vars

\* The square cost matrices of n rows with a zero diagonal and every other
\* entry a cost of 1 or 2 halves; a matrix need not be symmetric.
CostMatrices(n) ==
    {Array(n, n, [a \in 1..n |-> [b \in 1..n |-> IF a = b THEN 0 ELSE f[<<a, b>>]]]) :
        f \in [{e \in (1..n) \X (1..n) : e[1] # e[2]} -> 1..2]}

\* _solve_tsp_nearest_neighbor on every cost matrix of 2..MaxN rows, as
\* tsp_osrm and tsp_google call it.
InitNN ==
    /\ tpc = "nn_enter"
    /\ tmethod \in {"osrm", "google"}
    /\ \E n \in 2..MaxN :
          /\ points = Points(n)
          /\ distance_matrix \in CostMatrices(n)
    /\ tdistance = "euclidean"
    /\ installed = {}
    /\ unvisited = {}
    /\ route = <<>>
    /\ current = 0
    /\ total_distance = 0
    /\ solverCalls = <<>>
    /\ matrixCalls = 1
    /\ tret = [kind |-> "pending", value |-> <<>>, error |-> ""]
    /\ NoRemote /\ NoKmeans /\ NoFactory /\ NoKahip /\ NoAssign

NNCallNext == NNNext \/ TspRemoteReturn

SpecNN == InitNN /\ [][NNCallNext]_vars

\* ------------------------------------------------------------------------
\* Graph-partition clustering (core/algorithms.py, kahip_cluster)
\* ------------------------------------------------------------------------

\* The index sets (1-based) that "for i in s[n_closest:]: d[i] = 0" can leave
\* untouched in one row d: n_closest indices, or all of them, none with a
\* greater value than an index left out.  argsort does not say which of
\* several equal values comes first.
KeptIndices(d, nc) ==
    {keep \in SUBSET (1..Len(d)) :
        /\ Cardinality(keep) = Min(Max(nc, 0), Len(d))
        /\ \A a \in keep, b \in (1..Len(d)) \ keep : d[a] <= d[b]}

RECURSIVE SparsifiedRows(_, _)
\* The matrices the loop of lines 167-170 can leave.
SparsifiedRows(rows, nc) ==
    IF rows = <<>> THEN {<<>>}
    ELSE {<<[b \in 1..Len(Head(rows)) |-> IF b \in keep THEN Head(rows)[b] ELSE 0]>> \o rest :
             keep \in KeptIndices(Head(rows), nc), rest \in SparsifiedRows(Tail(rows), nc)}

\* nx.from_numpy_array(A) for an undirected graph: an edge for every non-zero
\* entry, added row by row, so that for u < v the entry A[v, u], when it is not
\* zero, overwrites the weight A[u, v] gave the edge.  Nodes are 0-based.
FromNumpyArray(A) ==
    LET n == A.shape[1]
        edges == {e \in (0..(n - 1)) \X (0..(n - 1)) :
                     /\ e[1] <= e[2]
                     /\ \/ A.data[e[1] + 1][e[2] + 1] # 0
                        \/ A.data[e[2] + 1][e[1] + 1] # 0}
    IN [nodes |-> n,
        weight |-> [e \in edges |->
                       IF e[1] # e[2] /\ A.data[e[2] + 1][e[1] + 1] # 0
                       THEN A.data[e[2] + 1][e[1] + 1]
                       ELSE A.data[e[1] + 1][e[2] + 1]]]

\* G.edges(n, data=True) for every node n, with int(weight): what the loops of
\* _run_kahip_wrapper (adjncy, adjcwgt) and of _run_kahip_buffoon (the METIS
\* lines) hand over, as the set of <<node, neighbour, weight>>.
HandedEdges(g) ==
    {<<e[1], e[2], IntOf(g.weight[e])>> : e \in DOMAIN g.weight}
        \cup {<<e[2], e[1], IntOf(g.weight[e])>> : e \in DOMAIN g.weight}

KahipResult(lbls) ==
    [kind |-> "return", value |-> [labels |-> lbls, graph |-> G], error |-> ""]

KahipRaised(e) == [kind |-> "raise", value |-> <<>>, error |-> e]

\* Lines 148-160: the conversion of data and get_distance_matrix(X, X, ...).
KahipEnter ==
    /\ kahipPc = "enter"
    /\ IF Len(kahipX) = 0 \/ kahipMethod \in {"euclidean", "haversine"}
       THEN LET r == LocalDistanceMatrix(kahipX, kahipX, kahipMethod)
            IN /\ IF r.kind = "raise"
                  THEN /\ kahipRet' = KahipRaised(r.error)
                       /\ kahipPc' = "done"
                       /\ UNCHANGED kahipDistances
                  ELSE /\ kahipDistances' = r.value
                       /\ kahipPc' = "graph"
                       /\ UNCHANGED kahipRet
               /\ UNCHANGED remoteVars
       ELSE /\ IF kahipMethod = "osrm"
               THEN StartRemote("osrm", kahipX, kahipX, DefaultTableSize, TRUE, NoBadElement)
               ELSE \E bad \in BadElements(kahipX, kahipX) :
                       StartRemote("google", kahipX, kahipX, 0, TRUE, bad)
            /\ kahipPc' = "remote"
            /\ UNCHANGED <<kahipDistances, kahipRet>>
    /\ UNCHANGED <<kahipEnv, G, handed, subprocessCalls>>
    /\ UNCHANGED <<kmeansVars, factoryVars, routeVars, assignVars>>

\* The remote provider has returned or raised.
KahipRemoteDone ==
    /\ kahipPc = "remote"
    /\ rpc = "done"
    /\ IF rret.kind = "raise"
       THEN /\ kahipRet' = KahipRaised(rret.error)
            /\ kahipPc' = "done"
            /\ UNCHANGED kahipDistances
       ELSE /\ kahipDistances' = rret.value
            /\ kahipPc' = "graph"
            /\ UNCHANGED kahipRet
    /\ UNCHANGED <<kahipEnv, G, handed, subprocessCalls>>
    /\ UNCHANGED <<remoteVars, kmeansVars, factoryVars, routeVars, assignVars>>

\* Lines 162-172: the None test, the sparsifying loop and the graph.
KahipGraph ==
    /\ kahipPc = "graph"
    /\ IF kahipDistances.kind = "None"
       THEN /\ kahipRet' = KahipRaised("ValueError: Could not calculate distance matrix")
            /\ kahipPc' = "done"
            /\ UNCHANGED <<kahipDistances, G>>
       ELSE \E rows \in SparsifiedRows(kahipDistances.data, n_closest) :
               /\ kahipDistances' = [kahipDistances EXCEPT !.data = rows]
               /\ IF kahipDistances.shape[1] # kahipDistances.shape[2]
                  THEN /\ kahipRet' = KahipRaised("NetworkXError")
                       /\ kahipPc' = "done"
                       /\ UNCHANGED G
                  ELSE /\ G' = FromNumpyArray(kahipDistances')
                       /\ kahipPc' = "run"
                       /\ UNCHANGED kahipRet
    /\ UNCHANGED <<kahipEnv, handed, subprocessCalls>>
    /\ UNCHANGED <<remoteVars, kmeansVars, factoryVars, routeVars, assignVars>>

\* Lines 174-182 with _run_kahip_wrapper: the import, the adjacency arrays and
\* the partitioner, whose answer is some part number below nparts per node.
KahipWrapper ==
    /\ kahipPc = "run"
    /\ ~buffoon
    /\ kahipPc' = "done"
    /\ IF ~kahipInstalled
       THEN /\ kahipRet' = KahipRaised("ImportError: kahipwrapper")
            /\ UNCHANGED handed
       ELSE /\ handed' = HandedEdges(G)
            /\ \E part \in [1..G.nodes -> 0..(kahipK - 1)] : kahipRet' = KahipResult(part)
    /\ UNCHANGED <<kahipEnv, kahipDistances, G, subprocessCalls>>
    /\ UNCHANGED <<remoteVars, kmeansVars, factoryVars, routeVars, assignVars>>

\* Lines 174-182 with _run_kahip_buffoon: the METIS file, the mpirun command and
\* the partition file, which is there or not as the command left it.
KahipBuffoon ==
    /\ kahipPc = "run"
    /\ buffoon
    /\ kahipPc' = "done"
    /\ handed' = HandedEdges(G)
    /\ subprocessCalls' = Append(subprocessCalls, "mpirun buffoon")
    /\ \/ kahipRet' = KahipRaised("FileNotFoundError")
       \/ \E part \in [1..G.nodes -> 0..(kahipK - 1)] : kahipRet' = KahipResult(part)
    /\ UNCHANGED <<kahipEnv, kahipDistances, G>>
    /\ UNCHANGED <<remoteVars, kmeansVars, factoryVars, routeVars, assignVars>>

KahipNext ==
    \/ KahipEnter \/ KahipRemoteDone \/ KahipGraph \/ KahipWrapper \/ KahipBuffoon
    \/ OsrmNext \/ GoogleNext

\* The most clusters asked of the partitioner.
MaxParts == 2

\* A point with three neighbours around it, each of them nearer to it than to
\* the two others.
StarPoints == << <<3, 3>>, <<0, 3>>, <<6, 3>>, <<3, 0>> >>

InitKahip ==
    /\ kahipPc = "enter"
    /\ kahipX \in {Points(n) : n \in 0..MaxN} \cup {StarPoints}
    /\ kahipK \in 1..MaxParts
    /\ kahipMethod \in {"euclidean", "haversine", "osrm", "google"}
    /\ n_closest \in 1..MaxN
    /\ buffoon \in BOOLEAN
    /\ kahipInstalled \in BOOLEAN
    /\ kahipDistances = None
    /\ G = [nodes |-> 0, weight |-> <<>>]
    /\ handed = <<>>
    /\ subprocessCalls = <<>>
    /\ kahipRet = [kind |-> "pending", value |-> <<>>, error |-> ""]
    /\ NoRemote /\ NoKmeans /\ NoFactory /\ NoRoute /\ NoAssign

SpecKahip == InitKahip /\ [][KahipNext]_vars

\* ------------------------------------------------------------------------
\* Loading and assignment (io/data_handler.py, api/distance.py)
\* ------------------------------------------------------------------------

\* A DataFrame: the names of its two coordinate columns, and its rows in
\* order, each with its index label, its coordinates and whether both
\* coordinates are numbers (pd.to_numeric leaves NaN for the others).

\* DataHandler.REQUIRED_COLUMNS.
REQUIRED_COLUMNS == <<"longitude", "latitude">>

\* DataHandler.LEGACY_MAPPING, in the order of the dict.
LEGACY_MAPPING ==
    << <<"start_long", "longitude">>, <<"start_lat", "latitude">>,
       <<"long", "longitude">>, <<"lat", "latitude">>, <<"lng", "longitude">> >>

InSeq(x, s) == \E k \in 1..Len(s) : s[k] = x

RECURSIVE RenameLegacy(_, _)
\* _standardize_dataframe lines 76-78, from the k-th item of the mapping on: an
\* old name is renamed when the new name is not a column yet.
RenameLegacy(cols, k) ==
    IF k > Len(LEGACY_MAPPING) THEN cols
    ELSE LET old == LEGACY_MAPPING[k][1]
             new == LEGACY_MAPPING[k][2]
         IN RenameLegacy(IF InSeq(old, cols) /\ ~InSeq(new, cols)
                         THEN [i \in 1..Len(cols) |-> IF cols[i] = old THEN new ELSE cols[i]]
                         ELSE cols,
                         k + 1)

\* Line 83: the message of the ValueError for each list of missing columns.
MissingColumnsError(missing) ==
    IF missing = <<"longitude", "latitude">>
    THEN "ValueError: Missing required columns: ['longitude', 'latitude']"
    ELSE IF missing = <<"longitude">>
         THEN "ValueError: Missing required columns: ['longitude']"
         ELSE "ValueError: Missing required columns: ['latitude']"

HasNumbers(row) == row.numeric

AssignRaised(e) == [kind |-> "raise", value |-> <<>>, error |-> e]

\* DataHandler._standardize_dataframe, lines 71-95.  dropna keeps the index
\* labels of the rows it leaves.
StandardizeDataframe(df) ==
    LET cols == RenameLegacy(df.columns, 1)
        missing == SelectSeq(REQUIRED_COLUMNS, LAMBDA col : ~InSeq(col, cols))
    IN IF missing # <<>>
       THEN AssignRaised(MissingColumnsError(missing))
       ELSE [kind |-> "return",
             value |-> [columns |-> cols, rows |-> SelectSeq(df.rows, HasNumbers)],
             error |-> ""]

\* DataHandler.load_data of a DataFrame, lines 39-40.
LoadData(d) == StandardizeDataframe(d)

\* df[["longitude", "latitude"]].values
Coordinates(df) == [k \in 1..Len(df.rows) |-> df.rows[k].coord]

\* sort_by_distance_assignment, lines 290-301.  np.argmin over an empty axis
\* raises ValueError.
SortByDistanceAssignment(pts, cents, metric) ==
    LET distances == LocalDistanceMatrix(pts, cents, metric)
    IN IF distances.kind = "raise" THEN AssignRaised(distances.error)
       ELSE IF distances.value.shape[2] = 0 THEN AssignRaised("ValueError")
            ELSE [kind |-> "return",
                  value |-> [a \in 1..Len(pts) |-> Argmin(distances.value.data[a])],
                  error |-> ""]

\* result_df.loc[lbl, worker columns] = w: the rows whose index label is lbl
\* get the values; when there is none, a row with that label is added, NaN in
\* its other columns.
LocSet(rows, lbl, w) ==
    IF \E k \in 1..Len(rows) : rows[k].label = lbl
    THEN [k \in 1..Len(rows) |->
             IF rows[k].label = lbl THEN [rows[k] EXCEPT !.worker = <<w>>] ELSE rows[k]]
    ELSE Append(rows, [label |-> lbl, coord |-> <<>>, assigned_worker |-> <<>>,
                       worker |-> <<w>>])

\* assign_to_closest line 189.
AssignLoadPoints ==
    /\ apc = "enter"
    /\ LET r == LoadData(pointsArg)
       IN IF r.kind = "raise"
          THEN /\ aret' = r
               /\ apc' = "done"
               /\ UNCHANGED points_df
          ELSE /\ points_df' = r.value
               /\ apc' = "load_workers"
               /\ UNCHANGED aret
    /\ UNCHANGED <<assignEnv, workers_df, assigned, result_df, ai>>
    /\ UNCHANGED <<remoteVars, kmeansVars, factoryVars, routeVars, kahipVars>>

\* Lines 190-193.
AssignLoadWorkers ==
    /\ apc = "load_workers"
    /\ LET r == LoadData(workersArg)
       IN IF r.kind = "raise"
          THEN /\ aret' = r
               /\ apc' = "done"
               /\ UNCHANGED workers_df
          ELSE /\ workers_df' = r.value
               /\ apc' = "labels"
               /\ UNCHANGED aret
    /\ UNCHANGED <<assignEnv, points_df, assigned, result_df, ai>>
    /\ UNCHANGED <<remoteVars, kmeansVars, factoryVars, routeVars, kahipVars>>

\* Lines 196-202: the labels, and the copy of points_df with the column
\* assigned_worker.
AssignLabels ==
    /\ apc = "labels"
    /\ LET r == SortByDistanceAssignment(Coordinates(points_df), Coordinates(workers_df),
                                         adistance)
       IN IF r.kind = "raise"
          THEN /\ aret' = r
               /\ apc' = "done"
               /\ UNCHANGED <<assigned, result_df, ai>>
          ELSE /\ assigned' = r.value
               /\ result_df' = [k \in 1..Len(points_df.rows) |->
                                   [label |-> points_df.rows[k].label,
                                    coord |-> points_df.rows[k].coord,
                                    assigned_worker |-> <<r.value[k]>>,
                                    worker |-> <<>>]]
               /\ ai' = 0
               /\ apc' = "worker_info"
               /\ UNCHANGED aret
    /\ UNCHANGED <<assignEnv, points_df, workers_df>>
    /\ UNCHANGED <<remoteVars, kmeansVars, factoryVars, routeVars, kahipVars>>

\* Lines 205-208: one pass of "for i, label in enumerate(labels)".
AssignWorkerInfo ==
    /\ apc = "worker_info"
    /\ ai < Len(assigned)
    /\ LET label == assigned[ai + 1]
           worker_row == workers_df.rows[label + 1]
       IN result_df' = LocSet(result_df, ai, worker_row.coord)
    /\ ai' = ai + 1
    /\ UNCHANGED <<assignEnv, apc, points_df, workers_df, assigned, aret>>
    /\ UNCHANGED <<remoteVars, kmeansVars, factoryVars, routeVars, kahipVars>>

\* Lines 210-219.
AssignReturn ==
    /\ apc = "worker_info"
    /\ ai >= Len(assigned)
    /\ aret' = [kind |-> "return",
                value |-> [data |-> result_df,
                           n_points |-> Len(points_df.rows),
                           n_workers |-> Len(workers_df.rows)],
                error |-> ""]
    /\ apc' = "done"
    /\ UNCHANGED <<assignEnv, points_df, workers_df, assigned, result_df, ai>>
    /\ UNCHANGED <<remoteVars, kmeansVars, factoryVars, routeVars, kahipVars>>

AssignNext ==
    AssignLoadPoints \/ AssignLoadWorkers \/ AssignLabels \/ AssignWorkerInfo \/ AssignReturn

\* Most rows of a points DataFrame.
MaxRows == 2

\* The coordinate column names of the inputs: the standard ones, legacy ones
\* and unknown ones.
ColumnNames == {<<"longitude", "latitude">>, <<"long", "lat">>, <<"x", "y">>}

\* The row indexes of the inputs with n rows: the default RangeIndex, one that
\* starts at 1, one that counts down.
RowIndexes(n) ==
    {[k \in 1..n |-> k - 1], [k \in 1..n |-> k], [k \in 1..n |-> n - k]}

\* The points DataFrames: up to MaxRows rows, each at one of two places, the
\* first as far from one worker as from the other, with or without numbers
\* for coordinates.
PointFramesOf(n) ==
    {[columns |-> cols,
      rows |-> [k \in 1..n |-> [label |-> idx[k], coord |-> place[k], numeric |-> num[k]]]] :
        cols \in ColumnNames,
        idx \in RowIndexes(n),
        place \in [1..n -> {<<1, 0>>, <<2, 0>>}],
        num \in [1..n -> BOOLEAN]}

PointFrames == UNION {PointFramesOf(n) : n \in 0..MaxRows}

\* The workers DataFrames: no worker, one or two, with the default index.
WorkerFrames ==
    {[columns |-> cols,
      rows |-> [k \in 1..Len(place) |->
                   [label |-> k - 1, coord |-> place[k], numeric |-> TRUE]]] :
        cols \in {<<"longitude", "latitude">>, <<"lng", "lat">>},
        place \in UNION {[1..n -> {<<0, 0>>, <<2, 0>>}] : n \in 0..2}}

InitAssign ==
    /\ apc = "enter"
    /\ pointsArg \in PointFrames
    /\ workersArg \in WorkerFrames
    /\ adistance \in {"euclidean", "haversine"}
    /\ points_df = [columns |-> <<>>, rows |-> <<>>]
    /\ workers_df = [columns |-> <<>>, rows |-> <<>>]
    /\ assigned = <<>>
    /\ result_df = <<>>
    /\ ai = 0
    /\ aret = [kind |-> "pending", value |-> <<>>, error |-> ""]
    /\ NoRemote /\ NoKmeans /\ NoFactory /\ NoRoute /\ NoKahip

SpecAssign == InitAssign /\ [][AssignNext]_vars

\* The two callers of np.argmin(distances, axis=1): clustering calls and
\* assignment calls.
InitLabelling == InitKmeans \/ InitAssign

LabellingNext == KmeansNext \/ AssignNext

SpecLabelling == InitLabelling /\ [][LabellingNext]_vars

\* Both remote providers.
InitRemote == InitOsrm \/ InitGoogle

RemoteNext == OsrmNext \/ GoogleNext

SpecRemote == InitRemote /\ [][RemoteNext]_vars

Init ==
    \/ InitRemote \/ InitGoogleCaps \/ InitKmeans \/ InitKmeansNearby \/ InitSession
    \/ InitFactory \/ InitRoute \/ InitNN \/ InitKahip \/ InitAssign

Next == RemoteNext \/ SessionNext \/ FactoryNext \/ RouteNext \/ KahipNext \/ AssignNext

Spec == Init /\ [][Next]_vars

\* ------------------------------------------------------------------------
\* Properties of the remote providers
\* ------------------------------------------------------------------------

RECURSIVE Flatten(_)
Flatten(chunks) == IF chunks = <<>> THEN <<>> ELSE Head(chunks) \o Flatten(Tail(chunks))

RequestFailed(r) == r.outcome \notin {"200", "ok"}

SomeRequestFailed == \E k \in 1..Len(requests) : RequestFailed(requests[k])

\* The points an OSRM request names as its sources and as its destinations.
ReqSources(r) == [k \in 1..Len(r.url.sources) |-> r.url.coords[r.url.sources[k] + 1]]
ReqDestinations(r) ==
    [k \in 1..Len(r.url.destinations) |-> r.url.coords[r.url.destinations[k] + 1]]

OsrmFinishedAllOk ==
    /\ provider = "osrm"
    /\ rpc = "done"
    /\ Len(X) >= 1
    /\ Len(Y) >= 1
    /\ ~SomeRequestFailed
    /\ rret.kind = "return"

\* C3: when a request of a remote call (OSRM or Google) fails, the call ends
\* in an error raised to the caller; it returns neither None nor a partial
\* matrix.
RemoteFailureIsRaised ==
    (rpc = "done" /\ SomeRequestFailed) => rret.kind = "raise"

\* C4: an OSRM call whose requests all succeed has cut the sources into
\* ceil(nX/m) and the destinations into ceil(nY/m) contiguous non-empty chunks
\* of at most m points, in index order, and has issued one request per pair
\* of chunks, ceil(nX/m) * ceil(nY/m) in all, no request twice.
OsrmOneRequestPerChunkPair ==
    OsrmFinishedAllOk =>
        LET xs == CeilDiv(Len(X), chunksize)
            ys == CeilDiv(Len(Y), chunksize)
            SrcChunk(a) == ReqSources(requests[(a - 1) * ys + 1])
            DstChunk(b) == ReqDestinations(requests[b])
        IN /\ Len(requests) = xs * ys
           /\ count = xs * ys
           /\ Flatten([a \in 1..xs |-> SrcChunk(a)]) = X
           /\ Flatten([b \in 1..ys |-> DstChunk(b)]) = Y
           /\ \A a \in 1..xs : Len(SrcChunk(a)) \in 1..chunksize
           /\ \A b \in 1..ys : Len(DstChunk(b)) \in 1..chunksize
           /\ \A a \in 1..xs, b \in 1..ys :
                /\ ReqSources(requests[(a - 1) * ys + b]) = SrcChunk(a)
                /\ ReqDestinations(requests[(a - 1) * ys + b]) = DstChunk(b)
           /\ \A k1, k2 \in 1..Len(requests) :
                k1 # k2 => requests[k1].url # requests[k2].url

\* An OSRM call over several source and several destination chunks of
\* different sizes has returned.
OsrmChunkedCallReturned ==
    /\ OsrmFinishedAllOk
    /\ Xsplits >= 2
    /\ Ysplits >= 2
    /\ Len(X) % Xsplits # 0

GoogleSentinelForEveryBadElement ==
    (provider = "google" /\ rpc = "done" /\ ~SomeRequestFailed) =>
        /\ rret.kind = "return"
        /\ rret.value.kind = "array"
        /\ rret.value.shape = <<Len(X), Len(Y)>>
        /\ \A i \in 1..Len(X), j \in 1..Len(Y) :
              GoogleElement(X[i], Y[j]).status # "OK" => rret.value.data[i][j] = -1

\* The caps of the service ("Maximum of 25 origins or 25 destinations per
\* request", "100 elements per request": the docstring, lines 87-89).
ServiceMaxOrigins == 25

ServiceMaxElements == 100

\* C19: every request google_distance_matrix issues, for nX >= 1 sources and
\* nY >= 1 destinations, carries at most 25 origins, at most 25 destinations
\* and at most 100 origin-destination elements.
GoogleRequestsWithinCaps ==
    (provider = "google" /\ Len(X) >= 1 /\ Len(Y) >= 1) =>
        \A k \in 1..Len(requests) :
            /\ Len(requests[k].origins) <= ServiceMaxOrigins
            /\ Len(requests[k].destinations) <= ServiceMaxOrigins
            /\ Len(requests[k].origins) * Len(requests[k].destinations) <= ServiceMaxElements

\* A call with 26 sources and 3 destinations (78 elements, more than 25
\* origins) has returned after two answered requests.
GoogleManyOriginsReturned ==
    /\ provider = "google"
    /\ rpc = "done"
    /\ Len(X) = 26
    /\ Len(Y) = 3
    /\ Len(requests) = 2
    /\ \A k \in 1..2 : requests[k].outcome = "ok"
    /\ rret.kind = "return"
    /\ rret.value.shape = <<26, 3>>

\* The requests of the log that have started and not ended.
Outstanding(log) ==
    Cardinality({k \in 1..Len(log) : log[k] = "start"})
        - Cardinality({k \in 1..Len(log) : log[k] \in {"complete", "failed"}})

\* C20: google_distance_matrix issues its chunk requests strictly one after
\* another: at no time is more than one request outstanding, and between the
\* end of any request and the start of the next one the pacing delay
\* (time.sleep(1)) has elapsed.
GoogleRequestsOneAtATimeAndPaced ==
    provider = "google" =>
        /\ \A n \in 0..Len(events) : Outstanding(SubSeq(events, 1, n)) \in {0, 1}
        /\ \A i, j \in 1..Len(events) :
               (i < j /\ events[i] \in {"complete", "failed"} /\ events[j] = "start") =>
                   \E m \in (i + 1)..(j - 1) : events[m] = "sleep"

\* A call cut into four chunk pairs has returned after four answered requests,
\* each followed by the pause.
GoogleFourPacedRequestsReturned ==
    /\ provider = "google"
    /\ rpc = "done"
    /\ rret.kind = "return"
    /\ Len(requests) = 4
    /\ \A k \in 1..4 : requests[k].outcome = "ok"
    /\ events = <<"start", "complete", "sleep", "start", "complete", "sleep",
                  "start", "complete", "sleep", "start", "complete", "sleep">>

KmeansReturnsKCentroidsAndLabels ==
    (kpc = "done" /\ n_clusters \in 1..Len(data)) =>
        /\ kret.kind = "return"
        /\ Len(kret.value.centroids) = n_clusters
        /\ DOMAIN kret.value.labels = 1..Len(data)
        /\ \A a \in 1..Len(data) : kret.value.labels[a] \in 0..(n_clusters - 1)

\* C2: k > |P| or k <= 0 is reported as an error before the first iteration:
\* no distance matrix is computed and no result is returned.
KmeansRejectsBadK ==
    (n_clusters > Len(data) \/ n_clusters <= 0) =>
        /\ dmCalls = 0
        /\ kret.kind # "return"
        /\ kpc = "done" => kret.kind = "raise"

\* C15: for a non-empty point set (duplicate points allowed) and
\* 1 <= k <= |P|, the labels kmeans returns are dense in [0, k): every id in
\* [0, k) is the label of at least one point.
KmeansLabelsDense ==
    (kpc = "done" /\ n_clusters \in 1..Len(data) /\ kret.kind = "return") =>
        {kret.value.labels[a] : a \in 1..Len(data)} = 0..(n_clusters - 1)

\* The calls of the process that have finished, in order.
FinishedCalls == IF kpc = "done" THEN Append(history, FinishedCall) ELSE history

\* Two calls were given the same points, k, metric, max_iter and seed.
SameSeededCall(a, b) ==
    /\ a.random_state # <<>>
    /\ a.random_state = b.random_state
    /\ a.data = b.data
    /\ a.n_clusters = b.n_clusters
    /\ a.distance_method = b.distance_method
    /\ a.max_iter = b.max_iter

\* C16: two kmeans calls with identical points, k, metric, max_iter and the
\* same seed return identical labels and identical centroids, whatever calls,
\* seeded or not, came before or between them.
KmeansSeededCallsReproducible ==
    \A i, j \in 1..Len(FinishedCalls) :
        SameSeededCall(FinishedCalls[i], FinishedCalls[j]) =>
            /\ FinishedCalls[i].ret.kind = "return"
            /\ FinishedCalls[j].ret.kind = "return"
            /\ FinishedCalls[i].ret.value.labels = FinishedCalls[j].ret.value.labels
            /\ FinishedCalls[i].ret.value.centroids = FinishedCalls[j].ret.value.centroids

\* Two calls with seed 0 on three points and two clusters have returned, with
\* an unseeded call on other points between them.
KmeansSeededTwiceReturned ==
    /\ kpc = "done"
    /\ Len(history) = 2
    /\ history[2].random_state = <<>>
    /\ history[2].data # data
    /\ SameSeededCall(history[1], FinishedCall)
    /\ random_state = <<0>>
    /\ Len(data) = 3
    /\ n_clusters = 2
    /\ kret.kind = "return"

\* C17: a kmeans call made with a random_state leaves the process-global
\* state as it found it: the global random generator is in the same state
\* after the call's initialisation as before, so that no later call can tell
\* whether the seeded call was made.
SeededCallLeavesGlobalStateAlone ==
    [][(kpc = "enter" /\ random_state # <<>> /\ kpc' = "loop") =>
          rngState' = rngState]_vars

\* A call the contract covers: at least one iteration allowed, 1 <= k <= |P|.
ValidKmeansCall == max_iter >= 1 /\ n_clusters \in 1..Len(data)

\* Every centroid coordinate of cur is within the relative tolerance 1e-4 of
\* the one of prev.
WithinTolerance(prev, cur) ==
    \A j \in 1..Len(cur), ax \in 1..2 :
        10000 * Abs(prev[j][ax] - cur[j][ax]) <= Abs(cur[j][ax])

\* The iterations, counted from 1, whose recomputed centroids are within the
\* tolerance of the centroids of the iteration before.
CloseIterations ==
    {i \in 1..(Len(centroidTrace) - 1) :
        WithinTolerance(centroidTrace[i], centroidTrace[i + 1])}

\* What C18 says of a finished call.
KmeansStopsAtFirstCloseIteration ==
    (ValidKmeansCall /\ kpc = "done") =>
        /\ kret.kind = "return"
        /\ kret.value.iterations \in 1..max_iter
        /\ Len(centroidTrace) = kret.value.iterations + 1
        /\ dmCalls = kret.value.iterations
        /\ kret.value.converged <=> CloseIterations # {}
        /\ kret.value.converged => CloseIterations = {kret.value.iterations}
        /\ ~kret.value.converged => kret.value.iterations = max_iter
        /\ kret.value.centroids = centroidTrace[Len(centroidTrace)]
        /\ kret.value.labels = labels
        /\ Len(kret.value.labels) = Len(data)

\* What is left for a call to do: the iterations not yet made, the
\* initialisation and the return.  It is never negative.
KmeansVariant ==
    (max_iter - iter) + (IF kpc = "enter" THEN 2 ELSE IF kpc = "loop" THEN 1 ELSE 0)

\* C18: for max_iter >= 1 (and a k the contract allows) kmeans_cluster performs
\* at most max_iter iterations and terminates (every step of the call
\* decreases KmeansVariant, which is never negative, so no call steps for
\* ever); it returns converged = true with iterations = i at the first
\* iteration i whose recomputed centroids are within the tolerance of the
\* previous iteration's, and otherwise converged = false with
\* iterations = max_iter and the last labels and centroids, without raising.
KmeansTerminatesWithinMaxIter ==
    /\ [](ValidKmeansCall => iter <= max_iter /\ dmCalls <= max_iter)
    /\ []KmeansStopsAtFirstCloseIteration
    /\ [][ValidKmeansCall => (KmeansVariant' < KmeansVariant /\ KmeansVariant' >= 0)]_vars

\* A call has converged at its second iteration, not at its first.
KmeansConvergedAtSecondIteration ==
    /\ kpc = "done"
    /\ ValidKmeansCall
    /\ kret.kind = "return"
    /\ kret.value.converged
    /\ kret.value.iterations = 2
    /\ CloseIterations = {2}

\* The points (1-based) the last iteration labelled j (0-based).
ClusterMembers(j) == {m \in 1..Len(data) : labels[m] = j}

\* The centroids the last iteration started from.
PreviousCentroids == centroidTrace[Len(centroidTrace) - 1]

\* C24: move_centroids returns one centroid per input centroid, in the same
\* order: centroid j is the coordinate-wise mean of the points labelled j when
\* there is one, and exactly the previous centroid j when there is none; an
\* empty cluster neither raises nor leaves an undefined position.
MoveCentroidsMeanOrPrevious ==
    Len(centroidTrace) >= 2 =>
        /\ Len(centroids) = Len(PreviousCentroids)
        /\ \A j \in 1..Len(centroids) :
              IF ClusterMembers(j - 1) = {}
              THEN centroids[j] = PreviousCentroids[j]
              ELSE \A ax \in 1..2 :
                      Cardinality(ClusterMembers(j - 1)) * centroids[j][ax]
                          = SumCoord(data, ClusterMembers(j - 1), ax)
        /\ kret.kind # "raise"

\* An iteration has left one cluster empty, its centroid where it was, and has
\* moved another centroid to the mean of three points, two of them equal.
KmeansEmptyClusterKeptCentroid ==
    /\ Len(centroidTrace) >= 2
    /\ Len(data) = 3
    /\ n_clusters = 2
    /\ ClusterMembers(1) = {}
    /\ centroids[2] = PreviousCentroids[2]
    /\ ClusterMembers(0) = {1, 2, 3}
    /\ centroids[1] # PreviousCentroids[1]
    /\ \A m \in 1..3 : centroids[1] # data[m]

\* The label of every point when it is assigned to its minimum-cost centroid
\* among cents.
Reassigned(cents) ==
    [a \in 1..Len(data) |->
        Argmin([j \in 1..Len(cents) |-> PairCost(data[a], cents[j])])]

\* C25: whenever kmeans_cluster returns converged = true, assigning every
\* point to its minimum-cost centroid among the returned centroids reproduces
\* exactly the returned labels.
KmeansConvergedIsLocalOptimum ==
    (kpc = "done" /\ kret.kind = "return" /\ kret.value.converged) =>
        kret.value.labels = Reassigned(kret.value.centroids)

\* C28: with max_iter = 0 kmeans_cluster performs no iteration and returns
\* converged = false with iterations = 0, the initial centroids and a label
\* for every point, rather than raising.
KmeansZeroIterationsReturns ==
    (kpc = "done" /\ max_iter = 0 /\ n_clusters \in 1..Len(data)) =>
        /\ dmCalls = 0
        /\ kret.kind = "return"
        /\ ~kret.value.converged
        /\ kret.value.iterations = 0
        /\ kret.value.centroids = centroidTrace[1]
        /\ DOMAIN kret.value.labels = 1..Len(data)

\* ------------------------------------------------------------------------
\* Properties of routing
\* ------------------------------------------------------------------------

\* The library the method needs can be imported.
MethodInstalled ==
    /\ tmethod = "christofides" => "Christofides" \in installed
    /\ tmethod = "ortools" => "ortools" \in installed

\* C6: for each of the four routing methods a single point gives the tour
\* [0, 0] with total cost 0, and no distance matrix is computed, no request
\* issued and no solver invoked.
SinglePointTourWithoutSolver ==
    (/\ tpc = "done"
     /\ tmethod \in {"christofides", "ortools", "osrm", "google"}
     /\ MethodInstalled
     /\ Len(points) = 1) =>
        /\ tret = RouteResult(<<0, 0>>, 0)
        /\ matrixCalls = 0
        /\ requests = <<>>
        /\ solverCalls = <<>>

\* C7: for two or more points the tour a routing method returns has length
\* |P| + 1, equal first and last entries, and each index of [0, |P|) exactly
\* once in its first |P| positions.
RouteTourIsClosedPermutation ==
    (tpc = "done" /\ Len(points) >= 2 /\ tret.kind = "return") =>
        LET r == tret.value.route
            n == Len(points)
        IN /\ Len(r) = n + 1
           /\ r[1] = r[n + 1]
           /\ \A node \in 0..(n - 1) : Cardinality({a \in 1..n : r[a] = node}) = 1

\* C8: in tsp_google the greedy step never moves to an unvisited point whose
\* cost from the current point is negative (the -1 sentinel) while some
\* unvisited point has a non-negative cost, and no negative entry is added
\* into total_distance.
GoogleSentinelExcludedFromTour ==
    [][(tmethod = "google" /\ tpc = "nn_loop" /\ route' # route) =>
          LET chosen == route'[Len(route')]
          IN /\ (/\ unvisited # {}
                 /\ Entry(distance_matrix, current, chosen) < 0) =>
                    \A x \in unvisited : Entry(distance_matrix, current, x) < 0
             /\ total_distance' >= total_distance]_vars

\* C13: for each of the four routing methods an empty point set is rejected
\* with a validation error before a distance matrix is computed, a request
\* issued or a solver invoked; no tour is returned.
EmptyRouteInputRejected ==
    (/\ tpc = "done"
     /\ tmethod \in {"christofides", "ortools", "osrm", "google"}
     /\ MethodInstalled
     /\ Len(points) = 0) =>
        /\ tret = RouteRaised("ValueError: Cannot solve TSP with empty data")
        /\ matrixCalls = 0
        /\ requests = <<>>
        /\ solverCalls = <<>>

\* The cost matrix of the metric a routing call has chosen: the provider's
\* matrix for the remote methods, the local metric's for the solver methods.
RouteCostMatrix ==
    IF tmethod \in {"osrm", "google"}
    THEN distance_matrix
    ELSE LocalDistanceMatrix(points, points, tdistance).value

\* C14: for two or more points the total_distance a routing method returns is
\* the sum of cost[tour[i], tour[i+1]] over the consecutive positions of the
\* returned tour, with the costs of the chosen metric's matrix (costs that are
\* not whole numbers included).
TotalDistanceIsSumOfTourCosts ==
    (tpc = "done" /\ Len(points) >= 2 /\ tret.kind = "return") =>
        tret.value.total_distance = TourCost(RouteCostMatrix, tret.value.route)

\* The nodes of the first k positions of the route.
VisitedBefore(k) == {route[i] : i \in 1..(k - 1)}

\* C26: for every square cost matrix with n >= 2 rows
\* _solve_tsp_nearest_neighbor starts at index 0, at every step appends an
\* unvisited index whose cost from the current index (row = current, column =
\* candidate) is minimal among all still-unvisited indices, and after the last
\* point appends index 0.
NearestNeighborTourIsGreedy ==
    (/\ tpc \in {"nn_loop", "nn_done", "done"}
     /\ distance_matrix.kind = "array"
     /\ distance_matrix.shape[1] = distance_matrix.shape[2]
     /\ distance_matrix.shape[1] >= 2
     /\ tret.kind # "raise") =>
        LET n == distance_matrix.shape[1]
        IN /\ Len(route) \in 1..(n + 1)
           /\ route[1] = 0
           /\ \A k \in 2..Min(Len(route), n) :
                 /\ route[k] \in (0..(n - 1)) \ VisitedBefore(k)
                 /\ \A x \in (0..(n - 1)) \ VisitedBefore(k) :
                       Entry(distance_matrix, route[k - 1], route[k])
                           <= Entry(distance_matrix, route[k - 1], x)
           /\ Len(route) = n + 1 => route[n + 1] = 0
           /\ tpc \in {"nn_done", "done"} => Len(route) = n + 1
           /\ tpc = "done" => tret.value.route = route

\* A tour over three points has been returned that went from 0 to 2, the
\* cheaper column of row 0, although 1 is the cheaper row of column 0.
NearestNeighborByRowReturned ==
    /\ tpc = "done"
    /\ tret.kind = "return"
    /\ distance_matrix.kind = "array"
    /\ distance_matrix.shape = <<3, 3>>
    /\ Entry(distance_matrix, 0, 2) < Entry(distance_matrix, 0, 1)
    /\ Entry(distance_matrix, 1, 0) < Entry(distance_matrix, 2, 0)
    /\ tret.value.route = <<0, 2, 1, 0>>

\* ------------------------------------------------------------------------
\* Properties of get_distance_matrix
\* ------------------------------------------------------------------------

\* C10: for every metric, get_distance_matrix with an empty source set and m
\* destinations returns a matrix of shape [0, m], with n >= 1 sources and an
\* empty destination set one of shape [n, 0], with both empty [0, 0]; no
\* error is raised and neither a metric backend nor a remote request is
\* invoked.
EmptyInputGivesEmptyMatrix ==
    (/\ fpc = "done"
     /\ method \in {"euclidean", "haversine", "osrm", "google"}
     /\ method = "google" => kwargs.api_key # ""
     /\ \/ Len(points_from) = 0
        \/ points_to # NonePts /\ Len(points_to) = 0) =>
        /\ fret.kind = "return"
        /\ fret.value.kind = "array"
        /\ fret.value.shape =
              <<Len(points_from),
                IF points_to = NonePts THEN Len(points_from) ELSE Len(points_to)>>
        /\ backends = <<>>
        /\ requests = <<>>

\* C11: get_distance_matrix rejects an invalid request before anything else,
\* whatever the sources and destinations (empty sets included): an unsupported
\* method name raises ValueError ('Unknown distance method'), method 'google'
\* without an api_key raises ValueError, and no request has been issued.
InvalidRequestRejectedFirst ==
    /\ (fpc = "done" /\ method \notin {"euclidean", "haversine", "osrm", "google"}) =>
          /\ fret = Raised("ValueError: Unknown distance method")
          /\ requests = <<>>
    /\ (fpc = "done" /\ method = "google" /\ kwargs.api_key = "") =>
          /\ fret = Raised("ValueError: Google method requires api_key parameter")
          /\ requests = <<>>

\* ------------------------------------------------------------------------
\* Properties of graph-partition clustering
\* ------------------------------------------------------------------------

\* C12: in kahip_cluster with the wrapper, a partitioner library that cannot be
\* imported is reported (ImportError naming kahipwrapper) before the first
\* request or subprocess of the call, for every metric: no request to a remote
\* distance service precedes the error.
KahipImportErrorBeforeRequests ==
    (kahipPc # "idle" /\ ~buffoon /\ ~kahipInstalled) =>
        /\ requests = <<>>
        /\ subprocessCalls = <<>>
        /\ kahipPc = "done" => kahipRet = KahipRaised("ImportError: kahipwrapper")

\* The edges of the graph that end in node u.
IncidentEdges(g, u) == {e \in DOMAIN g.weight : e[1] = u \/ e[2] = u}

KahipHandedWeightsPositive ==
    (kahipPc = "done" /\ (kahipRet.kind = "return" \/ subprocessCalls # <<>>)) =>
        \A e \in handed : e[3] >= 1

\* ------------------------------------------------------------------------
\* Properties of loading and assignment
\* ------------------------------------------------------------------------

\* j (0-based) is the index of a minimum of the row, and the lowest such.
IsLowestMinimum(j, row) ==
    /\ j + 1 \in 1..Len(row)
    /\ \A m \in 1..Len(row) : row[j + 1] <= row[m]
    /\ \A m \in 1..j : row[m] > row[j + 1]

\* The costs from a point to each centroid (worker).
CostRow(p, cents) == [j \in 1..Len(cents) |-> PairCost(p, cents[j])]

\* C21: in kmeans_cluster and in sort_by_distance_assignment each point's
\* label is the index j that minimises cost[point, j] over all centroids
\* (workers); when several centroids share the minimum cost, the lowest index
\* wins.
LabelIsLowestMinimumCostIndex ==
    /\ Len(centroidTrace) >= 2 =>
          /\ Len(labels) = Len(data)
          /\ \A a \in 1..Len(data) :
                IsLowestMinimum(labels[a], CostRow(data[a], PreviousCentroids))
    /\ apc \in {"worker_info", "done"} /\ aret.kind # "raise" =>
          /\ Len(assigned) = Len(points_df.rows)
          /\ \A a \in 1..Len(points_df.rows) :
                IsLowestMinimum(assigned[a],
                                CostRow(points_df.rows[a].coord, Coordinates(workers_df)))

\* Two points have been assigned among two workers at different places: the
\* first, as far from one worker as from the other, to worker 0, the second to
\* worker 1.
AssignedWithTie ==
    /\ apc = "done"
    /\ aret.kind = "return"
    /\ Len(workers_df.rows) = 2
    /\ Len(points_df.rows) = 2
    /\ LET row == CostRow(points_df.rows[1].coord, Coordinates(workers_df))
       IN row[1] = row[2]
    /\ workers_df.rows[1].coord # workers_df.rows[2].coord
    /\ assigned = <<0, 1>>

\* The load of the points and of the workers succeeded and there is a worker.
AssignInputsLoaded ==
    /\ LoadData(pointsArg).kind = "return"
    /\ LoadData(workersArg).kind = "return"
    /\ Len(LoadData(workersArg).value.rows) >= 1

\* C22: for every points input, whatever the row index of the loaded
\* DataFrame (rows with invalid coordinates removed or not), assign_to_closest
\* returns exactly one row per loaded point, each with an assigned_worker in
\* [0, number of workers), and the worker_* attributes of a row are those of
\* the worker its assigned_worker names.
AssignOneRowPerPointWithItsWorker ==
    (apc = "done" /\ AssignInputsLoaded) =>
        /\ aret.kind = "return"
        /\ Len(aret.value.data) = Len(points_df.rows)
        /\ \A k \in 1..Len(aret.value.data) :
              LET row == aret.value.data[k]
              IN /\ Len(row.assigned_worker) = 1
                 /\ row.assigned_worker[1] \in 0..(Len(workers_df.rows) - 1)
                 /\ row.worker = <<workers_df.rows[row.assigned_worker[1] + 1].coord>>

\* C23: DataHandler.load_data accepts only the standard coordinate column
\* names: a DataFrame whose coordinates are in columns named other than
\* 'longitude' and 'latitude' (for example 'long' and 'lat') is rejected with a
\* ValueError that names the missing 'longitude' and 'latitude' columns.
LoadRejectsNonStandardColumns ==
    (/\ apc # "idle"
     /\ apc # "enter"
     /\ ~InSeq("longitude", pointsArg.columns)
     /\ ~InSeq("latitude", pointsArg.columns)) =>
        /\ apc = "done"
        /\ aret = AssignRaised("ValueError: Missing required columns: ['longitude', 'latitude']")

====
